---- MODULE Spec2Model ----
(***************************************************************************)
(* GstGLWindow (gst-libs/gst/gl/gstglwindow.c) with its headless dummy     *)
(* window, and the texture handoff of glimagesink: the window thread's     *)
(* GMainLoop, the synchronous and asynchronous message dispatch, the       *)
(* callback registry and the sink's drawing lock.                          *)
(*                                                                         *)
(* GLib's main loop is modelled by what the calls in the source do:        *)
(*   g_main_loop_run      acquires the context, sets is_running, iterates  *)
(*                        while is_running; one iteration polls, collects  *)
(*                        the ready sources and dispatches all of them;    *)
(*   g_main_loop_quit     clears is_running and wakes the loop;            *)
(*   g_main_context_invoke calls the function directly when the caller     *)
(*                        owns the context, else attaches an idle source.  *)
(***************************************************************************)
EXTENDS Integers, Sequences, FiniteSets, TLC

(* ---- bounds of the model ---- *)
MaxAsync == 3      \* send_message_async calls, nested ones included
MaxOps == 3        \* operations the client threads start, all together
MaxReg == 3        \* callback registrations, the sink's first one included
MaxOpen == 2       \* calls of the window's open
MaxEvents == 2     \* key and mouse events posted on the navigation loop
MaxSetup == 3      \* calls that go through _ensure_gl_setup
MaxFills == 4      \* fill calls of the GL test source after a start
Second == 1000     \* GST_SECOND, in the time unit of the model

(* ---- threads ---- *)
GL == "gl"
Clients == {"app", "prod"}
Threads == Clients \cup {GL}
NoThread == "none"

Kinds == {"draw", "resize", "close"}

VARIABLES
  main_context,      \* dummy->main_context / dummy->loop: "none", "open", "closed"
  alive,             \* window->priv->alive
  loop_running,      \* the GMainLoop's is_running
  owner,             \* the thread that owns dummy->main_context
  queue,             \* idle sources attached to dummy->main_context, oldest first
  batch,             \* sources still to dispatch in the current loop iteration
  win_lock,          \* window->lock
  is_drawing,        \* window->is_drawing
  slot,              \* window->draw/resize/close with their data and notify
  notified,          \* per kind and registration: was the slot's data, times its notify ran
  setcb,             \* per client: the arguments of its set_*_callback call in progress
  nreg,              \* registrations made so far (they are numbered in call order)
  glpc,              \* position of the window thread
  gl_fn,             \* draw_cb: the value read from window->draw
  gl_data,           \* draw_cb: the value read from window->draw_data
  pc,                \* position of each client thread
  sync,              \* each client's GstGLSyncMessage (on its stack)
  msgs,              \* the GstGLMessage of every send_message_async call, by call order
  nsent,             \* number of send_message_async calls made by users so far
  ran,               \* ids of the user callbacks in the order they were executed
  counter,           \* the shared counter incremented by the "count" callback
  todo,              \* operations the client threads may still start
  quit_late,         \* per client: its quit() began after run() was invoked ("no", "pending", "returned")
  quit_done,         \* number of quit() calls that have returned
  stale_call,        \* draw_cb has called the draw callback with data already destroyed
  drawing_lock,      \* glimage_sink->drawing_lock
  redisplay_texture, \* glimage_sink->redisplay_texture
  stored_buffer,     \* glimage_sink->stored_buffer (0 = NULL)
  next_tex,          \* glimage_sink->next_tex
  next_buffer,       \* glimage_sink->next_buffer (0 = NULL)
  caps_change,       \* glimage_sink->caps_change
  window_width,      \* glimage_sink->window_width
  window_height,     \* glimage_sink->window_height
  window_id,         \* glimage_sink->window_id
  redisplay_shader,  \* glimage_sink->redisplay_shader is not NULL
  vao,               \* glimage_sink->vao is not 0
  to_quit,           \* glimage_sink->to_quit
  sf_old,            \* show_frame: its local stored_buffer
  sf_result,         \* the result of the last show_frame ("none" before the first)
  nframes,           \* frames prepared so far (buffers are numbered in that order)
  seen_tex,          \* on_draw: texture id seen by the check that a texture is ready
  emit_tex,          \* on_draw: texture id given to the client-draw signal
  bind_tex,          \* on_draw: texture id bound by the default draw
  drained,           \* a drain cleared the frame and none was presented since
  user_choice,       \* gst_gl_window_new: g_getenv ("GST_GL_WINDOW")
  have_window,       \* the backends with GST_GL_HAVE_WINDOW_<backend> set
  creatable,         \* the backends whose gst_gl_window_<backend>_new returns a window
  window,            \* gst_gl_window_new: its local window (the value returned)
  tried,             \* the backends whose constructor was called, in call order
  nav_lock,          \* window->nav_lock
  nav_created,       \* window->nav_created
  nav_alive,         \* window->nav_alive
  navigation_loop,   \* window->navigation_loop/context: "none", "idle", "running", "freed"
  nav_started,       \* number of navigation threads started for the window
  navpc,             \* position of the navigation thread
  newpc,             \* position of the thread inside gst_gl_window_new
  finpc,             \* position of the thread inside gst_gl_window_finalize
  nav_quit,          \* gst_gl_window_quit_navigation has been called
  nav_late,          \* the navigation thread used nav_lock after finalize cleared it
  element_state,     \* the sink's GstState, as far as change_state tells: "PAUSED", "READY"
  context,           \* glimage_sink->context is not NULL
  listeners,         \* key_sig_id and mouse_sig_id are connected to the window
  sf_late,           \* the show_frame in progress (or the last one) began with to_quit set
  held,              \* the buffers on which a reference taken for stored_buffer is held
  init_log,          \* the result of each thread_init_redisplay run so far: did the shader compile
  opened,            \* main contexts (each with its loop) allocated for the window so far
  keep_aspect_ratio, \* glimage_sink->keep_aspect_ratio
  reshape_handler,   \* a client-reshape handler is connected and answers TRUE
  viewport,          \* the rectangle of the last gl->Viewport call of on_resize, and where it was called
  relay,             \* the key and mouse events posted on the navigation loop, in posting order
  client_draw,       \* the client-draw emissions of the draw in progress (or the last one) and the answer
  setup,             \* the _ensure_gl_setup calls so far: the last caller, its result, what was created
  reshape_stale,     \* set_caps has run since the last on_resize began (or before any)
  testsrc            \* the GL test source: its fields, the result of the last fill and its buffer

winvars == <<main_context, alive, loop_running, owner, queue, batch, win_lock,
             is_drawing>>
regvars == <<slot, notified, setcb, nreg>>
glvars == <<glpc, gl_fn, gl_data>>
clvars == <<pc, sync, todo>>
msgvars == <<msgs, nsent, ran, counter>>
histvars == <<quit_late, quit_done, stale_call>>
sinkvars == <<drawing_lock, redisplay_texture, stored_buffer, next_tex, next_buffer,
              caps_change, window_width, window_height, window_id,
              redisplay_shader, vao, to_quit, sf_old, sf_result, nframes,
              seen_tex, emit_tex, bind_tex, drained>>

facvars == <<user_choice, have_window, creatable, window, tried>>
navvars == <<nav_lock, nav_created, nav_alive, navigation_loop, nav_started,
             navpc, newpc, finpc, nav_quit, nav_late, relay>>
statevars == <<element_state, context, listeners, sf_late, held, init_log>>
shapevars == <<keep_aspect_ratio, reshape_handler, viewport, client_draw, setup,
               reshape_stale, testsrc>>
lifevars == <<facvars, navvars, statevars, opened, shapevars>>

vars == <<winvars, regvars, glvars, clvars, msgvars, histvars, sinkvars,
          lifevars>>

(* ---- records ---- *)
NoReg == 0
EmptySlot == [fn |-> NoReg, data |-> NoReg, notify |-> NoReg]
SinkSlot == [fn |-> 1, data |-> 1, notify |-> 1]

(* GST_CLOCK_TIME_NONE and GST_BUFFER_OFFSET_NONE: the field is not set. *)
NONE == -1

(* A buffer as the pool hands it to fill: no timestamp, duration or offset. *)
NoBuf == [offset |-> NONE, offset_end |-> NONE, timestamp |-> NONE, duration |-> NONE]

(* gst_gl_test_src_init, no start yet: timestamp_offset = 0. *)
NoSrc == [started |-> FALSE, negotiated |-> FALSE, context |-> FALSE,
          fps_n |-> 0, fps_d |-> 1, timestamp_offset |-> 0,
          n_frames |-> 0, running_time |-> 0,
          calls |-> 0, oks |-> 0, ret |-> "none", buf |-> NoBuf, prev |-> NoBuf]

(* _ensure_gl_setup has not been called. *)
NoSetup == [calls |-> 0, call |-> "none", why |-> "none", result |-> "none",
            errors |-> 0, contexts |-> 0, regs |-> 0]

(* No client-draw emission yet in this draw. *)
NoClientDraw == [n |-> 0, redrawn |-> FALSE]

NoSet == [kind |-> "none", reg |-> NoReg]
NoTex == -1

(* No gl->Viewport call has been made by on_resize. *)
NoViewport == [mode |-> "none", w |-> 0, h |-> 0, from |-> "none"]

NoSync == [cb |-> "none", fired |-> FALSE, late |-> FALSE, runs |-> 0,
           on |-> {}, early |-> FALSE, busy |-> FALSE]
NoMsg == [sent |-> FALSE, from |-> NoThread, destroy |-> FALSE, inl |-> FALSE,
          cb |-> 0, dt |-> 0, on |-> {}, done |-> FALSE]

AsyncSrc(id, t) == [kind |-> "async", id |-> id, from |-> t]
SyncSrc(t) == [kind |-> "sync", id |-> 0, from |-> t]

Bump(n) == IF n < 2 THEN n + 1 ELSE 2
(* ======================= the window thread ============================= *)

(* gst_gl_dummy_window_open: a new main context and a loop on it. *)
Open ==
  /\ glpc = "new"
  /\ main_context = "none"
  /\ main_context' = "open"
  /\ opened' = opened + 1
  /\ glpc' = "opened"
  /\ UNCHANGED <<facvars, navvars, statevars, shapevars, alive, loop_running, owner, queue, batch, win_lock, is_drawing,
                 regvars, gl_fn, gl_data, clvars, msgvars, histvars, sinkvars>>

(* gst_gl_dummy_window_open called again on the window, before run: another
   main context and another loop are allocated and stored over the first
   ones; the sources attached so far stay with the context that is no longer
   the window's. *)
OpenAgain ==
  /\ glpc = "opened"
  /\ opened < MaxOpen
  /\ opened' = opened + 1
  /\ queue' = <<>>
  /\ UNCHANGED <<facvars, navvars, statevars, shapevars, main_context, alive, loop_running,
                 owner, batch, win_lock, is_drawing, regvars, glvars, clvars,
                 msgvars, histvars, sinkvars>>

(* gst_gl_window_run up to the call of the class's run: alive = TRUE,
   written without the window lock. *)
RunEnter ==
  /\ glpc = "opened"
  /\ alive' = TRUE
  /\ glpc' = "run"
  /\ UNCHANGED <<lifevars, main_context, loop_running, owner, queue, batch, win_lock,
                 is_drawing, regvars, gl_fn, gl_data, clvars, msgvars, histvars,
                 sinkvars>>

(* gst_gl_dummy_window_run -> g_main_loop_run: acquire the context and set
   is_running before the first iteration. *)
LoopStart ==
  /\ glpc = "run"
  /\ owner' = GL
  /\ loop_running' = TRUE
  /\ glpc' = "top"
  /\ UNCHANGED <<lifevars, main_context, alive, queue, batch, win_lock, is_drawing,
                 regvars, gl_fn, gl_data, clvars, msgvars, histvars, sinkvars>>

(* g_main_loop_run: while (is_running) iterate; on exit the context is
   released and run() returns. *)
LoopTop ==
  /\ glpc = "top"
  /\ IF loop_running
       THEN /\ glpc' = "poll"
            /\ owner' = owner
       ELSE /\ glpc' = "returned"
            /\ owner' = NoThread
  /\ UNCHANGED <<lifevars, main_context, alive, loop_running, queue, batch, win_lock,
                 is_drawing, regvars, gl_fn, gl_data, clvars, msgvars, histvars,
                 sinkvars>>

(* One iteration: poll blocks until a source is ready or the loop is woken
   (g_main_loop_quit wakes it); every source attached by then is dispatched
   in this iteration, whatever is_running has become. *)
LoopPoll ==
  /\ glpc = "poll"
  /\ queue # <<>> \/ ~loop_running
  /\ IF queue # <<>>
       THEN /\ batch' = Len(queue)
            /\ glpc' = "dispatch"
       ELSE /\ batch' = 0
            /\ glpc' = "top"
  /\ UNCHANGED <<lifevars, main_context, alive, loop_running, owner, queue, win_lock,
                 is_drawing, regvars, gl_fn, gl_data, clvars, msgvars, histvars,
                 sinkvars>>

(* The iteration has dispatched all the sources it collected. *)
LoopIterDone ==
  /\ glpc = "dispatch"
  /\ batch = 0
  /\ glpc' = "top"
  /\ UNCHANGED <<lifevars, winvars, regvars, gl_fn, gl_data, clvars, msgvars, histvars,
                 sinkvars>>

(* gst_gl_dummy_window_close: the loop and the context are unreferenced;
   sources still attached are dropped with the context, not dispatched. *)
Close ==
  /\ glpc = "returned"
  /\ main_context' = "closed"
  /\ glpc' = "closed"
  /\ UNCHANGED <<lifevars, alive, loop_running, owner, queue, batch, win_lock, is_drawing,
                 regvars, gl_fn, gl_data, clvars, msgvars, histvars, sinkvars>>

(* ======================= asynchronous messages ========================= *)

(* Mutant of Attach: the new source goes in front of the attached ones. *)
AttachFront(q, src) == <<src>> \o q

(* g_main_context_invoke, the other case: an idle source of the default
   priority is attached, behind the sources already attached. *)
Attach(q, src) == Append(q, src)

(* Mutant of InvokeInline: the function is never called directly, an idle
   source is always attached. *)
InvokeInlineNever(t) == FALSE

(* Mutant of InvokeInline: the function is always called directly. *)
InvokeInlineAlways(t) == TRUE

(* Mutant of InvokeInline: the function is also called directly when no
   thread owns the context (the loop is not running). *)
InvokeInlineUnowned(t) == owner \in {t, NoThread}

(* g_main_context_invoke: the function is called directly iff the calling
   thread owns the context (the thread inside g_main_loop_run); the context
   of a dummy window is never made a thread's default context. *)
InvokeInline(t) == owner = t

(* Mutant of RunMessageAgain: _run_message returns TRUE and the source stays
   attached. *)
RunMessageRepeats == TRUE

(* _run_message returns FALSE: the idle source is removed after one dispatch. *)
RunMessageAgain == FALSE

(* _run_message executed as a whole by thread t (the direct call made by
   g_main_context_invoke): callback, then destroy, once. *)
RanInline(m, t) ==
  [m EXCEPT !.cb = Bump(@), !.dt = IF m.destroy THEN Bump(@) ELSE @,
            !.on = @ \cup {t}, !.done = TRUE, !.inl = TRUE]

NewMsg(t, d) == [NoMsg EXCEPT !.sent = TRUE, !.from = t, !.destroy = d]

(* gst_gl_window_send_message_async -> gst_gl_dummy_window_send_message_async,
   called by a client thread with a user callback. *)
SendMessageAsync(t) ==
  /\ pc[t] = "idle"
  /\ main_context = "open"
  /\ todo > 0
  /\ nsent < MaxAsync
  /\ \E d \in BOOLEAN :
       LET id == nsent + 1 IN
       /\ nsent' = id
       /\ IF InvokeInline(t)
            THEN /\ msgs' = [msgs EXCEPT ![id] = RanInline(NewMsg(t, d), t)]
                 /\ ran' = Append(ran, id)
                 /\ queue' = queue
            ELSE /\ msgs' = [msgs EXCEPT ![id] = NewMsg(t, d)]
                 /\ ran' = ran
                 /\ queue' = Attach(queue, AsyncSrc(id, t))
  /\ todo' = todo - 1
  /\ UNCHANGED <<lifevars, main_context, alive, loop_running, owner, batch, win_lock,
                 is_drawing, regvars, glvars, pc, sync, counter, histvars,
                 sinkvars>>

(* _run_message, first statement: message->callback (message->data). *)
RunMessageCallback ==
  /\ glpc = "dispatch"
  /\ batch > 0
  /\ Head(queue).kind = "async"
  /\ LET id == Head(queue).id IN
       /\ msgs' = [msgs EXCEPT ![id].cb = Bump(@), ![id].on = @ \cup {GL}]
       /\ ran' = Append(ran, id)
  /\ glpc' = "in_cb"
  /\ UNCHANGED <<lifevars, winvars, regvars, gl_fn, gl_data, clvars, nsent, counter,
                 histvars, sinkvars>>

(* A user callback running on the window thread calls send_message_async. *)
CallbackSendAsync ==
  /\ glpc = "in_cb"
  /\ nsent < MaxAsync
  /\ \E d \in BOOLEAN :
       LET id == nsent + 1 IN
       /\ nsent' = id
       /\ IF InvokeInline(GL)
            THEN /\ msgs' = [msgs EXCEPT ![id] = RanInline(NewMsg(GL, d), GL)]
                 /\ ran' = Append(ran, id)
                 /\ queue' = queue
            ELSE /\ msgs' = [msgs EXCEPT ![id] = NewMsg(GL, d)]
                 /\ ran' = ran
                 /\ queue' = Attach(queue, AsyncSrc(id, GL))
  /\ UNCHANGED <<lifevars, main_context, alive, loop_running, owner, batch, win_lock,
                 is_drawing, regvars, glvars, clvars, counter, histvars, sinkvars>>

(* The user callback returns to _run_message. *)
CallbackReturn ==
  /\ glpc = "in_cb"
  /\ msgs' = [msgs EXCEPT ![Head(queue).id].done = TRUE]
  /\ glpc' = "msg_destroy"
  /\ UNCHANGED <<lifevars, winvars, regvars, gl_fn, gl_data, clvars, nsent, ran, counter,
                 histvars, sinkvars>>

(* _run_message, the rest: message->destroy (message->data) if set, free the
   message, return FALSE (the source is removed). *)
RunMessageDestroy ==
  /\ glpc = "msg_destroy"
  /\ LET id == Head(queue).id IN
       msgs' = [msgs EXCEPT ![id].dt = IF msgs[id].destroy THEN Bump(@) ELSE @,
                            ![id].on = IF msgs[id].destroy THEN @ \cup {GL} ELSE @]
  /\ queue' = IF RunMessageAgain THEN queue ELSE Tail(queue)
  /\ batch' = batch - 1
  /\ glpc' = "dispatch"
  /\ UNCHANGED <<lifevars, main_context, alive, loop_running, owner, win_lock, is_drawing,
                 regvars, gl_fn, gl_data, clvars, nsent, ran, counter, histvars,
                 sinkvars>>

(* ======================= synchronous messages ========================== *)

(* Mutant of SyncMayReturn: the caller does not wait for fired. *)
SyncReturnsUnfired(t) == TRUE

(* gst_gl_window_default_send_message: while (!message.fired) g_cond_wait. *)
SyncMayReturn(t) == sync[t].fired

(* The caller's half up to the wait: a GstGLSyncMessage on the stack with
   fired = FALSE, handed to send_message_async with _run_message_sync. *)
SyncSend(t, cb, late) ==
  /\ ~InvokeInline(t)
  /\ sync' = [sync EXCEPT ![t] = [cb |-> cb, fired |-> FALSE, late |-> late,
                                  runs |-> 0, on |-> {},
                                  early |-> owner = NoThread,
                                  busy |-> is_drawing]]
  /\ queue' = Attach(queue, SyncSrc(t))

(* _run_message_sync called directly by g_main_context_invoke in thread t:
   the callback has run in t and fired is set before the caller tests it. *)
RanSyncInline(t) ==
  [cb |-> "count", fired |-> TRUE, late |-> FALSE, runs |-> 1, on |-> {t},
   early |-> owner = NoThread, busy |-> is_drawing]

(* gst_gl_window_send_message with a user callback (the shared counter). *)
SendMessage(t) ==
  /\ pc[t] = "idle"
  /\ main_context = "open"
  /\ todo > 0
  /\ IF InvokeInline(t)
       THEN /\ sync' = [sync EXCEPT ![t] = RanSyncInline(t)]
            /\ counter' = counter + 1
            /\ UNCHANGED <<queue, pc>>
       ELSE /\ SyncSend(t, "count", FALSE)
            /\ counter' = counter
            /\ pc' = [pc EXCEPT ![t] = "sm_wait"]
  /\ todo' = todo - 1
  /\ UNCHANGED <<lifevars, main_context, alive, loop_running, owner, batch, win_lock,
                 is_drawing, regvars, glvars, msgs, nsent, ran, histvars,
                 sinkvars>>

(* A user callback running on the window thread, inside _run_message or
   _run_message_sync, calls gst_gl_window_send_message once.  Called directly
   by g_main_context_invoke, the nested _run_message_sync runs the callback
   and sets fired before send_message tests it, and the outer callback goes
   on.  Were an idle source attached instead, the window thread would wait at
   "nest_wait" for a message only its own loop can dispatch. *)
CallbackSendMessage ==
  /\ \/ glpc = "in_cb"
     \/ glpc = "sync_cb" /\ sync[Head(queue).from].cb = "count"
  /\ main_context = "open"
  /\ sync[GL].cb = "none"
  /\ IF InvokeInline(GL)
       THEN /\ sync' = [sync EXCEPT ![GL] = RanSyncInline(GL)]
            /\ counter' = counter + 1
            /\ UNCHANGED <<queue, glpc>>
       ELSE /\ SyncSend(GL, "count", FALSE)
            /\ counter' = counter
            /\ glpc' = "nest_wait"
  /\ UNCHANGED <<lifevars, main_context, alive, loop_running, owner, batch, win_lock,
                 is_drawing, regvars, gl_fn, gl_data, pc, todo, msgs, nsent, ran,
                 histvars, sinkvars>>

(* ... the wait is over: the locks of the record are cleared, the call returns. *)
SendMessageReturn(t) ==
  /\ pc[t] = "sm_wait"
  /\ SyncMayReturn(t)
  /\ pc' = [pc EXCEPT ![t] = "idle"]
  /\ UNCHANGED <<lifevars, winvars, regvars, glvars, sync, todo, msgvars, histvars, sinkvars>>

(* _run_message (callback = _run_message_sync): lock the record and call
   message->callback. *)
RunMessageSync ==
  /\ glpc = "dispatch"
  /\ batch > 0
  /\ Head(queue).kind = "sync"
  /\ glpc' = "sync_cb"
  /\ UNCHANGED <<lifevars, winvars, regvars, gl_fn, gl_data, clvars, msgvars, histvars,
                 sinkvars>>

(* The user's callback of a send_message: increments the shared counter. *)
CountCallback ==
  /\ glpc = "sync_cb"
  /\ sync[Head(queue).from].cb = "count"
  /\ counter' = counter + 1
  /\ sync' = [sync EXCEPT ![Head(queue).from].runs = Bump(@),
                          ![Head(queue).from].on = @ \cup {GL}]
  /\ glpc' = "sync_fire"
  /\ UNCHANGED <<lifevars, winvars, regvars, gl_fn, gl_data, pc, todo, msgs, nsent, ran,
                 histvars, sinkvars>>

(* _run_message_sync after the callback: fired = TRUE, signal, unlock; then
   _run_message frees the GstGLMessage and the source is removed. *)
SyncFire ==
  /\ glpc = "sync_fire"
  /\ sync' = [sync EXCEPT ![Head(queue).from].fired = TRUE]
  /\ queue' = IF RunMessageAgain THEN queue ELSE Tail(queue)
  /\ batch' = batch - 1
  /\ glpc' = "dispatch"
  /\ UNCHANGED <<lifevars, main_context, alive, loop_running, owner, win_lock, is_drawing,
                 regvars, gl_fn, gl_data, pc, todo, msgvars, histvars, sinkvars>>

(* ======================= quit ========================================== *)

(* Mutant of WindowLockFree: the window lock is not waited for. *)
WindowLockIgnored == TRUE

(* GST_GL_WINDOW_LOCK can be taken. *)
WindowLockFree == win_lock = NoThread

RunInvoked == glpc \notin {"new", "opened"}

(* gst_gl_window_quit: GST_GL_WINDOW_LOCK; alive = FALSE. *)
QuitLock(t) ==
  /\ pc[t] = "idle"
  /\ main_context = "open"
  /\ todo > 0
  /\ WindowLockFree
  /\ win_lock' = t
  /\ alive' = FALSE
  /\ pc' = [pc EXCEPT ![t] = "quit_loop"]
  /\ todo' = todo - 1
  /\ quit_late' = [quit_late EXCEPT ![t] = IF RunInvoked THEN "pending" ELSE "no"]
  /\ UNCHANGED <<lifevars, main_context, loop_running, owner, queue, batch, is_drawing,
                 regvars, glvars, sync, msgvars, quit_done, stale_call, sinkvars>>

(* ... window_class->quit = gst_gl_dummy_window_quit -> g_main_loop_quit. *)
QuitLoop(t) ==
  /\ pc[t] = "quit_loop"
  /\ loop_running' = FALSE
  /\ pc' = [pc EXCEPT ![t] = "quit_unlock"]
  /\ UNCHANGED <<lifevars, main_context, alive, owner, queue, batch, win_lock, is_drawing,
                 regvars, glvars, sync, todo, msgvars, histvars, sinkvars>>

(* ... GST_GL_WINDOW_UNLOCK; return. *)
QuitUnlock(t) ==
  /\ pc[t] = "quit_unlock"
  /\ win_lock' = NoThread
  /\ pc' = [pc EXCEPT ![t] = "idle"]
  /\ quit_done' = quit_done + 1
  /\ quit_late' = [quit_late EXCEPT ![t] = IF @ = "pending" THEN "returned" ELSE @]
  /\ UNCHANGED <<lifevars, main_context, alive, loop_running, owner, queue, batch,
                 is_drawing, regvars, glvars, sync, todo, msgvars, stale_call,
                 sinkvars>>

(* ======================= draw ========================================== *)

(* Mutant of DrawSuppressed: gst_gl_window_draw does not test is_drawing. *)
DrawNeverSuppressed == FALSE

(* gst_gl_window_draw: if (window->is_drawing) return. *)
DrawSuppressed == is_drawing

(* What is left of the caller's last message when its draw call was
   suppressed: nothing was sent. *)
Dropped == [NoSync EXCEPT !.cb = "dropped", !.busy = TRUE]

(* gst_gl_window_draw: return if is_drawing, else window_class->draw =
   gst_gl_dummy_window_draw -> gst_gl_window_send_message (draw_cb). *)
WindowDrawCall(t, wait, next) ==
  IF DrawSuppressed
    THEN /\ pc' = [pc EXCEPT ![t] = next]
         /\ sync' = [sync EXCEPT ![t] = Dropped]
         /\ UNCHANGED queue
    ELSE /\ SyncSend(t, "draw_cb", quit_done > 0)
         /\ pc' = [pc EXCEPT ![t] = wait]

Draw(t) ==
  /\ pc[t] = "idle"
  /\ main_context = "open"
  /\ todo > 0
  /\ WindowDrawCall(t, "draw_wait", "idle")
  /\ todo' = todo - 1
  /\ UNCHANGED <<lifevars, main_context, alive, loop_running, owner, batch, win_lock,
                 is_drawing, regvars, glvars, msgvars, histvars, sinkvars>>

DrawReturn(t) ==
  /\ pc[t] = "draw_wait"
  /\ SyncMayReturn(t)
  /\ pc' = [pc EXCEPT ![t] = "idle"]
  /\ UNCHANGED <<lifevars, winvars, regvars, glvars, sync, todo, msgvars, histvars, sinkvars>>

(* The destroy notify of registration r of kind k has run. *)
Destroyed(k, r) == r # NoReg /\ notified[k][r].n > 0

(* draw_cb: if (window->draw) ... : the read of window->draw, without the
   window lock. *)
DrawCbReadFn ==
  /\ glpc = "sync_cb"
  /\ sync[Head(queue).from].cb = "draw_cb"
  /\ gl_fn' = slot["draw"].fn
  /\ glpc' = IF slot["draw"].fn # NoReg THEN "dc_call" ELSE "dc_swap"
  /\ UNCHANGED <<lifevars, winvars, regvars, gl_data, clvars, msgvars, histvars, sinkvars>>

(* draw_cb: window->draw (window->draw_data): the read of window->draw_data
   and the call. *)
DrawCbCall ==
  /\ glpc = "dc_call"
  /\ gl_data' = slot["draw"].data
  /\ stale_call' = (stale_call \/ Destroyed("draw", slot["draw"].data))
  /\ sync' = [sync EXCEPT ![Head(queue).from].on = @ \cup {GL}]
  /\ glpc' = "on_draw"
  /\ UNCHANGED <<lifevars, winvars, regvars, gl_fn, pc, todo, msgvars, quit_late, quit_done,
                 sinkvars>>

(* draw_cb: context_class->swap_buffers; return to _run_message_sync. *)
DrawCbSwap ==
  /\ glpc = "dc_swap"
  /\ sync' = [sync EXCEPT ![Head(queue).from].runs = Bump(@)]
  /\ glpc' = "sync_fire"
  /\ UNCHANGED <<lifevars, winvars, regvars, gl_fn, gl_data, pc, todo, msgvars, histvars,
                 sinkvars>>

(* Mutant of DrawingLockFree: the drawing lock is not waited for. *)
DrawingLockIgnored == TRUE

(* GST_GLIMAGE_SINK_LOCK can be taken. *)
DrawingLockFree == drawing_lock = NoThread

(* gst_glimage_sink_on_draw while no texture is ready: lock, see
   redisplay_texture == 0, unlock, return. *)
OnDrawIdle ==
  /\ glpc = "on_draw"
  /\ DrawingLockFree
  /\ redisplay_texture = 0
  /\ glpc' = "dc_swap"
  /\ UNCHANGED <<lifevars, winvars, regvars, gl_fn, gl_data, clvars, msgvars, histvars,
                 sinkvars>>

(* ======================= message dispatch: specification =============== *)

(* g_getenv returned NULL: the variable is not set. *)
NoChoice == [set |-> FALSE, str |-> <<>>]

NoWindow == "NULL"
Dummy == "dummy"

(* The window's creation as it is once gst_gl_window_new has returned the
   dummy window (no backend compiled in): the navigation thread has been
   started and is about to run its loop. *)
InitCreated ==
  /\ user_choice = NoChoice
  /\ have_window = {}
  /\ creatable = {}
  /\ window = Dummy
  /\ tried = <<>>
  /\ nav_lock = NoThread
  /\ nav_created = TRUE
  /\ nav_alive = TRUE
  /\ navigation_loop = "idle"
  /\ nav_started = 1
  /\ navpc = "run"
  /\ newpc = "returned"
  /\ finpc = "none"
  /\ nav_quit = FALSE
  /\ nav_late = FALSE
  /\ relay = <<>>

InitWindow ==
  /\ main_context = "none"
  /\ alive = FALSE
  /\ loop_running = FALSE
  /\ owner = NoThread
  /\ queue = <<>>
  /\ batch = 0
  /\ win_lock = NoThread
  /\ is_drawing = FALSE
  /\ opened = 0
  /\ glpc = "new"
  /\ gl_fn = NoReg
  /\ gl_data = NoReg
  /\ pc = [t \in Clients |-> "idle"]
  /\ sync = [t \in Threads |-> NoSync]
  /\ msgs = [i \in 1..(MaxAsync + 1) |-> NoMsg]
  /\ nsent = 0
  /\ ran = <<>>
  /\ counter = 0
  /\ quit_late = [t \in Clients |-> "no"]
  /\ quit_done = 0
  /\ stale_call = FALSE
  /\ setcb = [t \in Clients |-> NoSet]
  /\ nreg = 1

InitSink ==
  /\ drawing_lock = NoThread
  /\ redisplay_texture = 0
  /\ stored_buffer = 0
  /\ next_tex = 0
  /\ next_buffer = 0
  /\ window_width = 0
  /\ window_height = 0
  /\ redisplay_shader = FALSE
  /\ vao = FALSE
  /\ to_quit = 0
  /\ sf_old = 0
  /\ sf_result = "none"
  /\ nframes = 0
  /\ seen_tex = NoTex
  /\ emit_tex = NoTex
  /\ bind_tex = NoTex
  /\ drained = FALSE

(* gst_glimage_sink_init: keep_aspect_ratio = TRUE; no handler is connected
   to client-reshape. *)
InitProperties ==
  /\ keep_aspect_ratio = TRUE
  /\ reshape_handler = FALSE
  /\ client_draw = NoClientDraw
  /\ setup = NoSetup
  /\ testsrc = NoSrc

(* The sink after _ensure_gl_setup in PAUSED: a context, the key and mouse
   handlers connected, no buffer stored. *)
InitElement ==
  /\ viewport = NoViewport
  /\ element_state = "PAUSED"
  /\ context = TRUE
  /\ listeners = TRUE
  /\ sf_late = FALSE
  /\ held = {}
  /\ init_log = <<>>

(* No sink has set the window up. *)
InitNoElement ==
  /\ InitProperties
  /\ viewport = NoViewport
  /\ element_state = "READY"
  /\ context = FALSE
  /\ listeners = FALSE
  /\ sf_late = FALSE
  /\ held = {}
  /\ init_log = <<>>

(* The registry after _ensure_gl_setup: the three callbacks are the sink's
   (registration 1 of each kind). *)
InitRegistered ==
  /\ slot = [k \in Kinds |-> SinkSlot]
  /\ notified = [k \in Kinds |->
                  [r \in 1..(MaxReg + 1) |-> [inst |-> r = 1, n |-> 0, bad |-> FALSE]]]

(* The window of a sink after _ensure_gl_setup, no frame presented. *)
InitSetup ==
  /\ InitCreated
  /\ InitProperties
  /\ InitElement
  /\ InitWindow
  /\ InitSink
  /\ InitRegistered
  /\ caps_change = FALSE
  /\ reshape_stale = FALSE
  /\ window_id = 0
  /\ todo = MaxOps

GlLoop ==
  \/ Open
  \/ RunEnter
  \/ LoopStart
  \/ LoopTop
  \/ LoopPoll
  \/ LoopIterDone
  \/ Close

GlMessages ==
  \/ RunMessageCallback
  \/ CallbackSendAsync
  \/ CallbackReturn
  \/ RunMessageDestroy
  \/ RunMessageSync
  \/ CountCallback
  \/ SyncFire

GlDrawCb ==
  \/ DrawCbReadFn
  \/ DrawCbCall
  \/ DrawCbSwap

NextMsg ==
  \/ GlLoop
  \/ GlMessages
  \/ GlDrawCb
  \/ OnDrawIdle
  \/ \E t \in Clients :
       \/ SendMessageAsync(t)
       \/ SendMessage(t)
       \/ SendMessageReturn(t)
       \/ QuitLock(t)
       \/ QuitLoop(t)
       \/ QuitUnlock(t)
       \/ Draw(t)
       \/ DrawReturn(t)

SpecMsg == InitSetup /\ [][NextMsg]_vars

(* Messages sent from client threads and, once, from a callback that is
   running on the window thread. *)
NextNest ==
  \/ Open
  \/ RunEnter
  \/ LoopStart
  \/ LoopTop
  \/ LoopPoll
  \/ LoopIterDone
  \/ RunMessageCallback
  \/ CallbackSendMessage
  \/ CallbackReturn
  \/ RunMessageDestroy
  \/ RunMessageSync
  \/ CountCallback
  \/ SyncFire
  \/ \E t \in Clients :
       \/ SendMessageAsync(t)
       \/ SendMessage(t)
       \/ SendMessageReturn(t)

SpecNest == InitSetup /\ [][NextNest]_vars

(* The window whose open may be called more than once, with asynchronous
   messages sent to it. *)
NextOpen ==
  \/ Open
  \/ OpenAgain
  \/ RunEnter
  \/ LoopStart
  \/ LoopTop
  \/ LoopPoll
  \/ LoopIterDone
  \/ RunMessageCallback
  \/ CallbackSendAsync
  \/ CallbackReturn
  \/ RunMessageDestroy
  \/ \E t \in Clients : SendMessageAsync(t)

SpecOpen == InitSetup /\ [][NextOpen]_vars

(* ======================= message dispatch: properties ================== *)

SentIds == 1..nsent

(* C1 as stated: the user callbacks of all send_message_async calls, calls
   made from a callback on the window thread included, are executed in the
   order of the calls (ids number the calls in call order). *)
C1_ExecutedInCallOrder ==
  \A i, j \in 1..Len(ran) : i < j => ran[i] < ran[j]

(* C1, amended: the callbacks of the calls that attached a source (every call
   made by a thread that does not own the loop's context) are executed in the
   order of the calls; a call made on the window thread while it runs the
   loop is executed inside the call, and only such calls are. *)
C1_QueuedExecutedInCallOrder ==
  /\ \A i, j \in 1..Len(ran) :
       (i < j /\ ~msgs[ran[i]].inl /\ ~msgs[ran[j]].inl) => ran[i] < ran[j]
  /\ \A id \in SentIds : msgs[id].inl => (msgs[id].from = GL /\ msgs[id].cb = 1)

(* Two queued messages and one sent from a callback have all been executed. *)
C1_Witness ==
  /\ Len(ran) = 3
  /\ \E i, j, k \in 1..3 :
       /\ i < j
       /\ ~msgs[ran[i]].inl /\ ~msgs[ran[j]].inl /\ msgs[ran[k]].inl
       /\ msgs[ran[i]].from # msgs[ran[j]].from

(* A send_message (or a draw, which is one) that is not waiting any more. *)
SyncReturned(t) == sync[t].cb # "none" /\ pc[t] \notin {"sm_wait", "draw_wait"}

(* C2: whenever a send_message call has returned, its callback has run to
   completion on the window thread, exactly once. *)
C2_ReturnedAfterCallback ==
  \A t \in Clients : SyncReturned(t) => (sync[t].runs = 1 /\ sync[t].fired)

C2_Witness ==
  \E t \in Clients : SyncReturned(t) /\ sync[t].cb = "count" /\ counter = 1

(* C3: the callback of an asynchronous message runs at most once, its destroy
   function at most once and only after the callback has returned, and both
   run on the window thread. *)
C3_OneShotOnWindowThread ==
  \A id \in SentIds :
    /\ msgs[id].cb <= 1
    /\ msgs[id].dt <= 1
    /\ msgs[id].dt = 1 => (msgs[id].destroy /\ msgs[id].cb = 1 /\ msgs[id].done)
    /\ msgs[id].on \subseteq {GL}

C3_Witness ==
  \E id \in SentIds :
    msgs[id].from \in Clients /\ msgs[id].dt = 1 /\ msgs[id].on = {GL}

(* C4 as stated: no message is abandoned; once the window has been closed
   (nothing can be dispatched any more) every message that was sent has been
   executed and its destroy function, if any, has been invoked once. *)
C4_NoMessageAbandoned ==
  main_context = "closed" =>
    \A id \in SentIds :
      msgs[id].cb = 1 /\ (msgs[id].destroy => msgs[id].dt = 1)

(* C5 as stated: the draw callback is never invoked for a draw() that was
   called after a quit() had returned. *)
C5_NoDrawAfterQuit ==
  ~(glpc = "on_draw" /\ sync[Head(queue).from].late)

(* C6 as stated: a quit() made after run() was invoked is not lost; once it
   has returned (and no other quit() is under way) the loop is not parked in
   its poll with is_running still set and nothing to dispatch. *)
C6_QuitNeverLost ==
  ((\E t \in Clients : quit_late[t] = "returned")
     /\ (\A t \in Clients : pc[t] \notin {"quit_loop", "quit_unlock"}))
  => ~(glpc = "poll" /\ queue = <<>> /\ loop_running)

(* C24 as stated: a draw() called while the window thread runs the loop
   and before any quit() has returned does return, whatever quit() calls run
   beside it: it is never left waiting for its message once run() has
   returned and the window is closed; and a draw callback that is invoked is
   invoked before run() returns. *)
C24_DrawReturnsDespiteQuit ==
  /\ \A t \in Clients :
       ~(/\ pc[t] = "draw_wait"
         /\ ~sync[t].early
         /\ ~sync[t].late
         /\ ~sync[t].fired
         /\ glpc = "closed")
  /\ glpc \in {"returned", "closed"} =>
       \A t \in Clients : sync[t].cb = "draw_cb" => sync[t].runs = 0 \/ sync[t].fired

(* C25 as stated: is_running() is FALSE once a quit() that began after
   run() was invoked has returned, and whenever run() has returned. *)
C25_NotRunningAfterQuit ==
  /\ (\E t \in Clients : quit_late[t] = "returned") => ~alive
  /\ glpc \in {"returned", "closed"} => ~alive

(* C16: every message callback and every draw callback is invoked on the
   window thread, the one thread that called run(), and only after it called
   run(), whichever thread sent the message or asked for the draw and whether
   or not the loop was running when it did. *)
C16_CallbacksOnWindowThread ==
  /\ \A id \in SentIds : msgs[id].on \subseteq {GL}
  /\ \A t \in Clients : sync[t].on \subseteq {GL}
  /\ (\E id \in SentIds : msgs[id].on # {}) => RunInvoked
  /\ (\E t \in Clients : sync[t].on # {}) => RunInvoked
  /\ glpc \in {"in_cb", "sync_fire", "on_draw"} => owner = GL

(* A draw asked for by a client while no thread was running the loop has
   been executed: its draw callback was invoked on the window thread. *)
C16_Witness ==
  \E t \in Clients :
    /\ sync[t].cb = "draw_cb"
    /\ sync[t].early
    /\ sync[t].on = {GL}
    /\ \E id \in SentIds : msgs[id].from \in Clients /\ msgs[id].on = {GL}

(* C22 as stated: however often open is called the window has the one main
   context and loop of the first call, so every message sent and not yet
   destroyed still has its source on the window's context. *)
C22_OpenIdempotent ==
  /\ opened <= 1
  /\ \A id \in SentIds :
       (~msgs[id].done /\ ~msgs[id].inl) =>
         \E i \in 1..Len(queue) : queue[i] = AsyncSrc(id, msgs[id].from)

(* The window thread is inside _run_message_sync, between its lock and its
   unlock of the record of the message at the head of the queue. *)
InRunMessageSync ==
  glpc \notin {"new", "opened", "run", "top", "poll", "dispatch", "in_cb",
               "msg_destroy", "nest_wait", "returned", "closed"}

(* C39: while the window thread is inside _run_message_sync for a client's
   record, that client is still waiting in the send_message that owns the
   record and has not seen fired; setting fired is the window thread's last
   access, and the source is gone from the queue with it. *)
C39_RecordNotUsedAfterReturn ==
  /\ InRunMessageSync =>
       /\ Len(queue) > 0
       /\ Head(queue).kind = "sync"
       /\ pc[Head(queue).from] \in {"sm_wait", "draw_wait"}
       /\ ~sync[Head(queue).from].fired
  /\ \A t \in Clients :
       sync[t].fired => \A i \in 1..Len(queue) : queue[i] # SyncSrc(t)

(* The record's callback has run and fired is being set while the caller is
   still waiting. *)
C39_Witness ==
  /\ glpc = "sync_fire"
  /\ pc[Head(queue).from] = "sm_wait"
  /\ sync[Head(queue).from].runs = 1

(* ======================= callback registry ============================= *)

(* gst_gl_window_set_{draw,resize,close}_callback (callback, data, notify):
   GST_GL_WINDOW_LOCK.  The new registration is NULL/NULL/NULL or a new
   callback with its data and destroy notify. *)
SetCallbackLock(t, k) ==
  /\ pc[t] = "idle"
  /\ todo > 0
  /\ WindowLockFree
  /\ \E new \in (IF nreg < MaxReg THEN {NoReg, nreg + 1} ELSE {NoReg}) :
       /\ setcb' = [setcb EXCEPT ![t] = [kind |-> k, reg |-> new]]
       /\ nreg' = IF new = NoReg THEN nreg ELSE new
  /\ win_lock' = t
  /\ pc' = [pc EXCEPT ![t] = "set_notify"]
  /\ todo' = todo - 1
  /\ UNCHANGED <<lifevars, main_context, alive, loop_running, owner, queue, batch,
                 is_drawing, slot, notified, glvars, sync, msgvars, histvars,
                 sinkvars>>

(* ... if (window->X_notify) window->X_notify (window->X_data). *)
SetCallbackNotify(t) ==
  /\ pc[t] = "set_notify"
  /\ LET k == setcb[t].kind
         old == slot[k]
     IN notified' =
          IF old.notify = NoReg THEN notified
          ELSE [notified EXCEPT ![k][old.notify].n = Bump(@),
                                ![k][old.notify].bad = @ \/ old.data # old.notify]
  /\ pc' = [pc EXCEPT ![t] = "set_fn"]
  /\ UNCHANGED <<lifevars, winvars, slot, setcb, nreg, glvars, sync, todo, msgvars,
                 histvars, sinkvars>>

(* ... window->X = callback. *)
SetCallbackFn(t) ==
  /\ pc[t] = "set_fn"
  /\ LET k == setcb[t].kind
         r == setcb[t].reg
     IN slot' = [slot EXCEPT ![k].fn = r]
  /\ pc' = [pc EXCEPT ![t] = "set_data"]
  /\ UNCHANGED <<lifevars, winvars, notified, setcb, nreg, glvars, sync, todo, msgvars,
                 histvars, sinkvars>>

(* ... window->X_data = data. *)
SetCallbackData(t) ==
  /\ pc[t] = "set_data"
  /\ LET k == setcb[t].kind
         r == setcb[t].reg
     IN /\ slot' = [slot EXCEPT ![k].data = r]
        /\ notified' = IF r = NoReg THEN notified
                       ELSE [notified EXCEPT ![k][r].inst = TRUE]
  /\ pc' = [pc EXCEPT ![t] = "set_unlock"]
  /\ UNCHANGED <<lifevars, winvars, setcb, nreg, glvars, sync, todo, msgvars, histvars,
                 sinkvars>>

(* ... window->X_notify = destroy_notify; GST_GL_WINDOW_UNLOCK. *)
SetCallbackUnlock(t) ==
  /\ pc[t] = "set_unlock"
  /\ slot' = [slot EXCEPT ![setcb[t].kind].notify = setcb[t].reg]
  /\ win_lock' = NoThread
  /\ setcb' = [setcb EXCEPT ![t] = NoSet]
  /\ pc' = [pc EXCEPT ![t] = "idle"]
  /\ UNCHANGED <<lifevars, main_context, alive, loop_running, owner, queue, batch,
                 is_drawing, notified, nreg, glvars, sync, todo, msgvars,
                 histvars, sinkvars>>

NextCb ==
  \/ Open
  \/ RunEnter
  \/ LoopStart
  \/ LoopTop
  \/ LoopPoll
  \/ LoopIterDone
  \/ RunMessageSync
  \/ SyncFire
  \/ GlDrawCb
  \/ OnDrawIdle
  \/ \E t \in Clients :
       \/ Draw(t)
       \/ DrawReturn(t)
       \/ \E k \in Kinds : SetCallbackLock(t, k)
       \/ SetCallbackNotify(t)
       \/ SetCallbackFn(t)
       \/ SetCallbackData(t)
       \/ SetCallbackUnlock(t)

SpecCb == InitSetup /\ [][NextCb]_vars

(* ======================= callback registry: properties ================= *)

Regs == 1..nreg

(* C9 as stated: draw_cb never calls the draw callback with a data pointer
   whose destroy notify has already run. *)
C9_NoStaleDrawData == ~stale_call

(* C10: each kind has at most one active registration.  The destroy notify of
   a registration runs at most once and on its own data; a registration that
   is no longer the slot's data has had its notify run (it ran before the new
   triple was written); and whenever the window lock is free the three fields
   of a slot belong to one registration, whose notify has not run. *)
C10_OneRegistrationPerKind ==
  \A k \in Kinds :
    /\ \A r \in Regs :
         /\ notified[k][r].n <= 1
         /\ ~notified[k][r].bad
         /\ (notified[k][r].inst /\ slot[k].data # r) => notified[k][r].n = 1
    /\ win_lock = NoThread =>
         /\ slot[k].fn = slot[k].data
         /\ slot[k].notify = slot[k].data
         /\ ~Destroyed(k, slot[k].data)

(* Two registrations of one kind have been replaced, the lock is free. *)
C10_Witness ==
  /\ win_lock = NoThread
  /\ \E k \in Kinds :
       /\ notified[k][1].n = 1
       /\ \E r \in Regs : r # 1 /\ notified[k][r].inst /\ notified[k][r].n = 1

(* ======================= glimagesink: the window thread ================ *)

Streaming == "prod"       \* the streaming thread: prepare, show_frame, queries
Application == "app"      \* the application thread: GstVideoOverlay expose

Max1(n) == IF n > 1 THEN n ELSE 1

(* on_resize, the default reshape: the sink's size fitted into width x height
   by gst_video_sink_center_rect if keep_aspect_ratio, else the whole window;
   from tells whether on_resize was called as the resize callback or by
   on_draw. *)
Reshape(width, height, from) ==
  [mode |-> IF keep_aspect_ratio THEN "letterbox" ELSE "stretch",
   w |-> width, h |-> height, from |-> from]

(* gst_glimage_sink_on_resize: the client-reshape signal, window_width =
   MAX (1, width), the same for the height, and unless the signal's handler
   answered TRUE the default reshape. *)
OnResize(width, height, from) ==
  /\ window_width' = Max1(width)
  /\ window_height' = Max1(height)
  /\ viewport' = IF reshape_handler THEN viewport
                 ELSE Reshape(Max1(width), Max1(height), from)
  /\ reshape_stale' = FALSE
  /\ UNCHANGED <<keep_aspect_ratio, reshape_handler, client_draw, setup, testsrc>>

(* gst_glimage_sink_thread_init_redisplay: a new shader; if it does not
   compile, cleanup_glthread drops it again; then the vertex array. *)
ThreadInitRedisplay ==
  /\ glpc = "sync_cb"
  /\ sync[Head(queue).from].cb = "init"
  /\ \E compiled \in BOOLEAN :
       /\ redisplay_shader' = compiled
       /\ init_log' = Append(init_log, compiled)
  /\ vao' = TRUE
  /\ sync' = [sync EXCEPT ![Head(queue).from].runs = Bump(@),
                          ![Head(queue).from].on = @ \cup {GL}]
  /\ glpc' = "sync_fire"
  /\ UNCHANGED <<facvars, navvars, opened, shapevars, element_state, context, listeners, sf_late,
                 held, winvars, regvars, gl_fn, gl_data, pc, todo, msgvars, histvars,
                 drawing_lock, redisplay_texture, stored_buffer, next_tex,
                 next_buffer, caps_change, window_width, window_height,
                 window_id, to_quit, sf_old, sf_result, nframes, emit_tex,
                 bind_tex, drained,
                 seen_tex>>

(* gst_glimage_sink_on_draw with a texture: lock, is_drawing = TRUE; with a
   pending caps change and a known window size the lock is released for
   on_resize. *)
OnDrawBegin ==
  /\ glpc = "on_draw"
  /\ DrawingLockFree
  /\ redisplay_texture # 0
  /\ is_drawing' = TRUE
  /\ seen_tex' = redisplay_texture
  /\ emit_tex' = NoTex
  /\ bind_tex' = NoTex
  /\ client_draw' = NoClientDraw
  /\ IF caps_change /\ window_width > 0 /\ window_height > 0
       THEN /\ drawing_lock' = NoThread
            /\ glpc' = "od_resize"
       ELSE /\ drawing_lock' = GL
            /\ glpc' = "od_emit"
  /\ UNCHANGED <<facvars, navvars, statevars, opened, keep_aspect_ratio, reshape_handler, viewport, setup, reshape_stale, testsrc, main_context, alive, loop_running, owner, queue, batch, win_lock,
                 regvars, gl_fn, gl_data, clvars, msgvars, histvars,
                 redisplay_texture, stored_buffer, next_tex, next_buffer,
                 caps_change, window_width, window_height, window_id,
                 redisplay_shader, vao, to_quit, sf_old, sf_result, nframes,
                 drained>>

(* ... gst_glimage_sink_on_resize (window_width, window_height), unlocked. *)
OnDrawResize ==
  /\ glpc = "od_resize"
  /\ OnResize(window_width, window_height, "draw")
  /\ glpc' = "od_relock"
  /\ UNCHANGED <<facvars, navvars, statevars, opened, winvars, regvars, gl_fn, gl_data, clvars, msgvars, histvars,
                 drawing_lock, redisplay_texture, stored_buffer, next_tex,
                 next_buffer, caps_change, window_id, redisplay_shader, vao,
                 to_quit, sf_old, sf_result, nframes, emit_tex, bind_tex,
                 drained,
                 seen_tex>>

(* ... GST_GLIMAGE_SINK_LOCK again; caps_change = FALSE. *)
OnDrawRelock ==
  /\ glpc = "od_relock"
  /\ DrawingLockFree
  /\ drawing_lock' = GL
  /\ caps_change' = FALSE
  /\ glpc' = "od_emit"
  /\ UNCHANGED <<lifevars, winvars, regvars, gl_fn, gl_data, clvars, msgvars, histvars,
                 redisplay_texture, stored_buffer, next_tex, next_buffer,
                 window_width, window_height, window_id, redisplay_shader, vao,
                 to_quit, sf_old, sf_result, nframes, emit_tex, bind_tex,
                 drained,
                 seen_tex>>

(* Mutant of DefaultDraw: the default scene is drawn whatever the handler
   answered. *)
DefaultDrawAlways(do_redisplay) == TRUE

(* on_draw: if (!do_redisplay), the default scene is drawn. *)
DefaultDraw(do_redisplay) == ~do_redisplay

(* ... g_signal_emit (client-draw, context, redisplay_texture, ...): the
   texture id is read again here; the answer of the last handler is
   do_redisplay, FALSE if no handler is connected. *)
OnDrawEmit ==
  /\ glpc = "od_emit"
  /\ emit_tex' = redisplay_texture
  /\ \E do_redisplay \in BOOLEAN :
       /\ client_draw' = [n |-> Bump(client_draw.n), redrawn |-> do_redisplay]
       /\ glpc' = IF DefaultDraw(do_redisplay) THEN "od_bind" ELSE "od_end"
  /\ UNCHANGED <<facvars, navvars, statevars, opened, keep_aspect_ratio, reshape_handler, viewport, setup, reshape_stale, testsrc, winvars, regvars, gl_fn, gl_data, clvars, msgvars, histvars,
                 drawing_lock, redisplay_texture, stored_buffer, next_tex,
                 next_buffer, caps_change, window_width, window_height,
                 window_id, redisplay_shader, vao, to_quit, sf_old, sf_result,
                 nframes, bind_tex, drained,
                 seen_tex>>

(* ... the default scene: gl->BindTexture (GL_TEXTURE_2D, redisplay_texture)
   and the draw. *)
OnDrawDefault ==
  /\ glpc = "od_bind"
  /\ bind_tex' = redisplay_texture
  /\ glpc' = "od_end"
  /\ UNCHANGED <<lifevars, winvars, regvars, gl_fn, gl_data, clvars, msgvars, histvars,
                 drawing_lock, redisplay_texture, stored_buffer, next_tex,
                 next_buffer, caps_change, window_width, window_height,
                 window_id, redisplay_shader, vao, to_quit, sf_old, sf_result,
                 nframes, emit_tex, drained,
                 seen_tex>>

(* Mutant of DrawingAtExit: on_draw leaves is_drawing set. *)
DrawingLeftSet == TRUE

(* on_draw, end of the scene: window->is_drawing = FALSE. *)
DrawingAtExit == FALSE

(* ... is_drawing = FALSE; GST_GLIMAGE_SINK_UNLOCK; back in draw_cb. *)
OnDrawEnd ==
  /\ glpc = "od_end"
  /\ is_drawing' = DrawingAtExit
  /\ drawing_lock' = NoThread
  /\ glpc' = "dc_swap"
  /\ UNCHANGED <<lifevars, main_context, alive, loop_running, owner, queue, batch, win_lock,
                 regvars, gl_fn, gl_data, clvars, msgvars, histvars,
                 redisplay_texture, stored_buffer, next_tex, next_buffer,
                 caps_change, window_width, window_height, window_id,
                 redisplay_shader, vao, to_quit, sf_old, sf_result, nframes,
                 emit_tex, bind_tex, drained,
                 seen_tex>>

(* The sizes a window backend reports. *)
ResizeSizes == {0, 2}

(* A resize event of the window backend, delivered on the window thread
   between two dispatches: window->resize (window->resize_data, w, h), which
   is gst_glimage_sink_on_resize. *)
ResizeEvent ==
  /\ glpc = "poll"
  /\ slot["resize"].fn = 1
  /\ \E w \in ResizeSizes, h \in ResizeSizes :
       /\ window_width # Max1(w) \/ window_height # Max1(h)
       /\ OnResize(w, h, "resize")
  /\ UNCHANGED <<facvars, navvars, statevars, opened, winvars, regvars, glvars, clvars, msgvars, histvars,
                 drawing_lock, redisplay_texture, stored_buffer, next_tex,
                 next_buffer, caps_change, window_id, redisplay_shader, vao,
                 to_quit, sf_old, sf_result, nframes, emit_tex, bind_tex,
                 drained,
                 seen_tex>>

(* The window backend finds its window closed and, on the window thread
   between two dispatches, calls window->close (window->close_data), which is
   gst_glimage_sink_on_close: the key and mouse handlers are disconnected
   and to_quit is set. *)
CloseEvent ==
  /\ glpc = "poll"
  /\ slot["close"].fn = 1
  /\ to_quit = 0
  /\ listeners' = FALSE
  /\ to_quit' = 1
  /\ UNCHANGED <<facvars, navvars, opened, shapevars, init_log, element_state, context, sf_late, held,
                 winvars, regvars, glvars, clvars, msgvars, histvars,
                 drawing_lock, redisplay_texture, stored_buffer, next_tex,
                 next_buffer, caps_change, window_width, window_height,
                 window_id, redisplay_shader, vao, sf_old, sf_result, nframes,
                 seen_tex, emit_tex, bind_tex, drained>>

(* gst_glimage_sink_cleanup_glthread, sent by the PAUSED_TO_READY change:
   the shader and the vertex array are dropped. *)
CleanupGlthread ==
  /\ glpc = "sync_cb"
  /\ sync[Head(queue).from].cb = "cleanup"
  /\ redisplay_shader' = FALSE
  /\ vao' = FALSE
  /\ sync' = [sync EXCEPT ![Head(queue).from].runs = Bump(@),
                          ![Head(queue).from].on = @ \cup {GL}]
  /\ glpc' = "sync_fire"
  /\ UNCHANGED <<lifevars, winvars, regvars, gl_fn, gl_data, pc, todo, msgvars, histvars,
                 drawing_lock, redisplay_texture, stored_buffer, next_tex,
                 next_buffer, caps_change, window_width, window_height,
                 window_id, to_quit, sf_old, sf_result, nframes, emit_tex,
                 bind_tex, drained, seen_tex>>

(* ======================= glimagesink: the client threads =============== *)

(* The streaming thread delivers caps, buffers and serialized queries only
   while the sink's pad is active, that is from READY_TO_PAUSED until the
   parent's change_state has handled PAUSED_TO_READY. *)
StreamingActive == element_state = "PAUSED" /\ context

(* The callers of _ensure_gl_setup. *)
SetupCalls == {"set_caps", "prepare", "propose_allocation"}

(* What the caller returns: set_caps and propose_allocation return the
   boolean, prepare returns GST_FLOW_NOT_NEGOTIATED on failure and goes on
   otherwise. *)
SetupResult(call, ok) ==
  IF ok THEN (IF call = "prepare" THEN "goes_on" ELSE "TRUE")
  ELSE (IF call = "prepare" THEN "NOT_NEGOTIATED" ELSE "FALSE")

(* Mutant of NeedsContext: the context is created at every call. *)
NeedsContextAlways == TRUE

(* _ensure_gl_setup: if (!gl_sink->context). *)
NeedsContext == ~context

(* _ensure_gl_setup as called by set_caps, prepare or propose_allocation on
   the streaming thread.  Without a context: gst_gl_context_new, then
   gst_gl_context_create; either can fail, the error is posted on the element
   and the context is left NULL; on success the three callbacks are set and
   the key and mouse handlers connected.  With a context: return TRUE. *)
EnsureGlSetup ==
  /\ pc[Streaming] = "idle"
  /\ pc[Application] = "idle"
  /\ element_state = "PAUSED"
  /\ setup.calls < MaxSetup
  /\ \E call \in SetupCalls, outcome \in {"ok", "new_failed", "create_failed"} :
       IF NeedsContext
         THEN IF outcome = "ok"
                THEN /\ context' = TRUE
                     /\ slot' = [k \in Kinds |-> SinkSlot]
                     /\ listeners' = TRUE
                     /\ setup' = [calls |-> setup.calls + 1, call |-> call,
                                  why |-> outcome,
                                  result |-> SetupResult(call, TRUE), errors |-> 0,
                                  contexts |-> Bump(setup.contexts),
                                  regs |-> Bump(setup.regs)]
                ELSE /\ context' = FALSE
                     /\ setup' = [setup EXCEPT !.calls = @ + 1, !.call = call,
                                               !.why = outcome,
                                               !.result = SetupResult(call, FALSE),
                                               !.errors = 1]
                     /\ UNCHANGED <<slot, listeners>>
         ELSE /\ outcome = "ok"
              /\ setup' = [setup EXCEPT !.calls = @ + 1, !.call = call,
                                        !.why = "exists",
                                        !.result = SetupResult(call, TRUE),
                                        !.errors = 0]
              /\ UNCHANGED <<context, slot, listeners>>
  /\ UNCHANGED <<facvars, navvars, opened, keep_aspect_ratio, reshape_handler, viewport,
                 client_draw, reshape_stale, testsrc, element_state, sf_late, held, init_log, winvars,
                 notified, setcb, nreg, glvars, clvars, msgvars, histvars, sinkvars>>

(* gst_glimage_sink_set_caps (a renegotiation): caps_change = TRUE, written
   without the drawing lock. *)
SetCaps ==
  /\ pc[Streaming] = "idle"
  /\ StreamingActive
  /\ todo > 0
  /\ caps_change' = TRUE
  /\ reshape_stale' = TRUE
  /\ todo' = todo - 1
  /\ UNCHANGED <<facvars, navvars, statevars, opened, keep_aspect_ratio, reshape_handler,
                 viewport, client_draw, setup, testsrc, winvars, regvars, glvars, pc, sync, msgvars, histvars,
                 drawing_lock, redisplay_texture, stored_buffer, next_tex,
                 next_buffer, window_width, window_height, window_id,
                 redisplay_shader, vao, to_quit, sf_old, sf_result, nframes,
                 emit_tex, bind_tex, drained,
                 seen_tex>>

(* gst_glimage_sink_prepare: the frame is uploaded and converted; next_tex is
   its texture id and next_buffer the converted buffer.  Frames are numbered,
   and a frame's texture id is its number. *)
Prepare ==
  /\ pc[Streaming] = "idle"
  /\ StreamingActive
  /\ todo > 0
  /\ nframes' = nframes + 1
  /\ next_tex' = nframes + 1
  /\ next_buffer' = nframes + 1
  /\ pc' = [pc EXCEPT ![Streaming] = "sf_publish"]
  /\ todo' = todo - 1
  /\ UNCHANGED <<lifevars, winvars, regvars, glvars, sync, msgvars, histvars,
                 drawing_lock, redisplay_texture, stored_buffer, caps_change,
                 window_width, window_height, window_id, redisplay_shader, vao,
                 to_quit, sf_old, sf_result, emit_tex, bind_tex, drained,
                 seen_tex>>

(* Mutant of ShowFrameStored: show_frame leaves stored_buffer as it is. *)
ShowFrameKeepsStored == stored_buffer

(* show_frame: glimage_sink->stored_buffer = gst_buffer_ref (next_buffer). *)
ShowFrameStored == next_buffer

(* Mutant of ShowFrameUnlock: show_frame calls redisplay with the drawing
   lock still held. *)
ShowFrameKeepsLock == Streaming

(* show_frame: GST_GLIMAGE_SINK_UNLOCK before gst_glimage_sink_redisplay. *)
ShowFrameUnlock == NoThread

(* gst_glimage_sink_show_frame, the locked part: redisplay_texture = next_tex,
   the stored buffer is swapped for next_buffer and the lock is dropped; then
   redisplay is called. *)
ShowFramePublish ==
  /\ pc[Streaming] = "sf_publish"
  /\ DrawingLockFree
  /\ redisplay_texture' = next_tex
  /\ sf_old' = stored_buffer
  /\ stored_buffer' = ShowFrameStored
  /\ held' = held \cup {next_buffer}
  /\ sf_late' = (to_quit # 0)
  /\ drained' = FALSE
  /\ drawing_lock' = ShowFrameUnlock
  /\ pc' = [pc EXCEPT ![Streaming] = "rd_check"]
  /\ UNCHANGED <<facvars, navvars, opened, shapevars, init_log, element_state, context, listeners, winvars, regvars, glvars, sync, todo, msgvars, histvars,
                 next_tex, next_buffer, caps_change, window_width,
                 window_height, window_id, redisplay_shader, vao, to_quit,
                 sf_result, nframes, emit_tex, bind_tex,
                 seen_tex>>

(* gst_glimage_sink_query, GST_QUERY_DRAIN: under the lock redisplay_texture
   = 0 and stored_buffer = NULL; the buffer and next_buffer are released. *)
Drain ==
  /\ pc[Streaming] = "idle"
  /\ StreamingActive
  /\ todo > 0
  /\ DrawingLockFree
  /\ redisplay_texture' = 0
  /\ stored_buffer' = 0
  /\ next_buffer' = 0
  /\ held' = held \ {stored_buffer}
  /\ drained' = TRUE
  /\ todo' = todo - 1
  /\ UNCHANGED <<facvars, navvars, opened, shapevars, init_log, element_state, context, listeners, sf_late, winvars, regvars, glvars, pc, sync, msgvars, histvars,
                 drawing_lock, next_tex, caps_change, window_width,
                 window_height, window_id, redisplay_shader, vao, to_quit,
                 sf_old, sf_result, nframes, emit_tex, bind_tex,
                 seen_tex>>

(* gst_glimage_sink_expose: with a display and a window id, redisplay. *)
Expose ==
  /\ pc[Application] = "idle"
  /\ todo > 0
  /\ window_id # 0
  /\ pc' = [pc EXCEPT ![Application] = "rd_check"]
  /\ todo' = todo - 1
  /\ UNCHANGED <<lifevars, winvars, regvars, glvars, sync, msgvars, histvars, sinkvars>>

(* gst_glimage_sink_redisplay: if the window is running and there is no
   shader yet, send_message (thread_init_redisplay) and wait. *)
RedisplayCheck(t) ==
  /\ pc[t] = "rd_check"
  /\ IF alive
       THEN IF ~redisplay_shader
              THEN /\ SyncSend(t, "init", FALSE)
                   /\ pc' = [pc EXCEPT ![t] = "rd_init_wait"]
              ELSE /\ pc' = [pc EXCEPT ![t] = "rd_draw"]
                   /\ UNCHANGED <<sync, queue>>
       ELSE /\ pc' = [pc EXCEPT ![t] = "rd_end"]
            /\ UNCHANGED <<sync, queue>>
  /\ UNCHANGED <<lifevars, main_context, alive, loop_running, owner, batch, win_lock,
                 is_drawing, regvars, glvars, todo, msgvars, histvars, sinkvars>>

(* ... the message has been run; a shader that is still NULL makes redisplay
   return FALSE. *)
RedisplayInitDone(t) ==
  /\ pc[t] = "rd_init_wait"
  /\ SyncMayReturn(t)
  /\ pc' = [pc EXCEPT ![t] = IF redisplay_shader THEN "rd_draw" ELSE "rd_fail"]
  /\ UNCHANGED <<lifevars, winvars, regvars, glvars, sync, todo, msgvars, histvars, sinkvars>>

(* ... gst_gl_window_draw (window). *)
RedisplayDraw(t) ==
  /\ pc[t] = "rd_draw"
  /\ WindowDrawCall(t, "rd_draw_wait", "rd_end")
  /\ UNCHANGED <<lifevars, main_context, alive, loop_running, owner, batch, win_lock,
                 is_drawing, regvars, glvars, todo, msgvars, histvars, sinkvars>>

RedisplayDrawDone(t) ==
  /\ pc[t] = "rd_draw_wait"
  /\ SyncMayReturn(t)
  /\ pc' = [pc EXCEPT ![t] = "rd_end"]
  /\ UNCHANGED <<lifevars, winvars, regvars, glvars, sync, todo, msgvars, histvars, sinkvars>>

(* Mutant of ShowFrameResult: show_frame does not look at to_quit. *)
ShowFrameIgnoresQuit(ret) == IF ret THEN "ok" ELSE "error"

(* show_frame: GST_FLOW_ERROR if redisplay failed or to_quit is set, else
   GST_FLOW_OK. *)
ShowFrameResult(ret) == IF ret /\ to_quit = 0 THEN "ok" ELSE "error"

(* ... alive = gst_gl_window_is_running (window); return alive.  In
   show_frame the old stored buffer is then released and the flow is OK unless
   to_quit is set; a failed redisplay is a flow error that keeps the old
   reference.  expose ignores the result. *)
RedisplayReturn(t) ==
  /\ pc[t] \in {"rd_end", "rd_fail"}
  /\ LET ret == pc[t] = "rd_end" /\ alive
     IN IF t = Streaming
          THEN /\ sf_old' = IF ret THEN 0 ELSE sf_old
               /\ held' = IF ret THEN held \ {sf_old} ELSE held
               /\ sf_result' = ShowFrameResult(ret)
          ELSE UNCHANGED <<sf_old, sf_result, held>>
  /\ pc' = [pc EXCEPT ![t] = "idle"]
  /\ UNCHANGED <<facvars, navvars, opened, shapevars, init_log, element_state, context, listeners, sf_late, winvars, regvars, glvars, sync, todo, msgvars, histvars,
                 drawing_lock, redisplay_texture, stored_buffer, next_tex,
                 next_buffer, caps_change, window_width, window_height,
                 window_id, redisplay_shader, vao, to_quit, nframes, emit_tex,
                 bind_tex, drained,
                 seen_tex>>

(* ======================= glimagesink: change_state ===================== *)

(* gst_glimage_sink_change_state, PAUSED_TO_READY, called by the application
   thread.  The parent's change_state has stopped the streaming thread.
   Under the lock redisplay_texture = 0 and the stored buffer is released;
   then next_buffer is dropped and window_id = 0. *)
PausedToReadyClear ==
  /\ pc[Application] = "idle"
  /\ pc[Streaming] = "idle"
  /\ element_state = "PAUSED"
  /\ todo > 0
  /\ DrawingLockFree
  /\ element_state' = "READY"
  /\ redisplay_texture' = 0
  /\ stored_buffer' = 0
  /\ held' = held \ {stored_buffer}
  /\ next_buffer' = 0
  /\ window_id' = 0
  /\ pc' = [pc EXCEPT ![Application] = IF context THEN "td_send" ELSE "idle"]
  /\ todo' = todo - 1
  /\ UNCHANGED <<facvars, navvars, opened, shapevars, init_log, context, listeners, sf_late, winvars,
                 regvars, glvars, sync, msgvars, histvars, drawing_lock,
                 next_tex, caps_change, window_width, window_height,
                 redisplay_shader, vao, to_quit, sf_old, sf_result, nframes,
                 seen_tex, emit_tex, bind_tex, drained>>

(* ... if (glimage_sink->context): gst_gl_window_send_message (window,
   gst_glimage_sink_cleanup_glthread), on the window thread's open context. *)
PausedToReadyCleanup ==
  /\ pc[Application] = "td_send"
  /\ main_context = "open"
  /\ SyncSend(Application, "cleanup", FALSE)
  /\ pc' = [pc EXCEPT ![Application] = "td_wait"]
  /\ UNCHANGED <<lifevars, main_context, alive, loop_running, owner, batch, win_lock,
                 is_drawing, regvars, glvars, todo, msgvars, histvars, sinkvars>>

(* The callback each position of the PAUSED_TO_READY change unsets and the
   position that follows. *)
UnsetKind == [td_wait |-> "resize", td_draw |-> "draw", td_close |-> "close"]
UnsetNext == [td_wait |-> "td_draw", td_draw |-> "td_close", td_close |-> "idle"]

(* ... the message has run; gst_gl_window_set_resize_callback (window, NULL,
   NULL, NULL), the same for draw and for close, each under the window lock
   with the old destroy notify called; after the last one the context is
   released and glimage_sink->context = NULL. *)
PausedToReadyUnset ==
  /\ pc[Application] \in DOMAIN UnsetKind
  /\ pc[Application] = "td_wait" => SyncMayReturn(Application)
  /\ WindowLockFree
  /\ LET k == UnsetKind[pc[Application]]
         old == slot[k]
     IN /\ notified' =
             IF old.notify = NoReg THEN notified
             ELSE [notified EXCEPT ![k][old.notify].n = Bump(@),
                                   ![k][old.notify].bad = @ \/ old.data # old.notify]
        /\ slot' = [slot EXCEPT ![k] = EmptySlot]
        /\ context' = (k # "close")
  /\ pc' = [pc EXCEPT ![Application] = UnsetNext[pc[Application]]]
  /\ UNCHANGED <<facvars, navvars, opened, shapevars, init_log, element_state, listeners, sf_late, held,
                 winvars, setcb, nreg, glvars, sync, todo, msgvars, histvars,
                 sinkvars>>

(* gst_glimage_sink_change_state, READY_TO_PAUSED: to_quit = 0. *)
ReadyToPaused ==
  /\ pc[Application] = "idle"
  /\ element_state = "READY"
  /\ todo > 0
  /\ to_quit' = 0
  /\ element_state' = "PAUSED"
  /\ todo' = todo - 1
  /\ UNCHANGED <<facvars, navvars, opened, shapevars, init_log, context, listeners, sf_late, held, winvars,
                 regvars, glvars, pc, sync, msgvars, histvars, drawing_lock,
                 redisplay_texture, stored_buffer, next_tex, next_buffer,
                 caps_change, window_width, window_height, window_id,
                 redisplay_shader, vao, sf_old, sf_result, nframes, seen_tex,
                 emit_tex, bind_tex, drained>>

(* ======================= glimagesink: specification ==================== *)

(* A sink after set_caps and _ensure_gl_setup, with a window handle set by
   the application; the window thread has just been created. *)
InitShown ==
  /\ InitCreated
  /\ InitElement
  /\ InitWindow
  /\ InitSink
  /\ InitRegistered
  /\ caps_change = TRUE
  /\ reshape_stale = TRUE
  /\ window_id = 1
  /\ todo = MaxOps

(* ... with the properties left at their defaults. *)
InitNegotiated ==
  /\ InitShown
  /\ InitProperties

GlOnDraw ==
  \/ OnDrawIdle
  \/ OnDrawBegin
  \/ OnDrawResize
  \/ OnDrawRelock
  \/ OnDrawEmit
  \/ OnDrawDefault
  \/ OnDrawEnd

NextSink ==
  \/ Open
  \/ RunEnter
  \/ LoopStart
  \/ LoopTop
  \/ LoopPoll
  \/ LoopIterDone
  \/ RunMessageSync
  \/ SyncFire
  \/ ThreadInitRedisplay
  \/ CleanupGlthread
  \/ GlDrawCb
  \/ GlOnDraw
  \/ ResizeEvent
  \/ CloseEvent
  \/ SetCaps
  \/ Prepare
  \/ ShowFramePublish
  \/ Drain
  \/ Expose
  \/ PausedToReadyClear
  \/ PausedToReadyCleanup
  \/ PausedToReadyUnset
  \/ ReadyToPaused
  \/ \E t \in Clients :
       \/ RedisplayCheck(t)
       \/ RedisplayInitDone(t)
       \/ RedisplayDraw(t)
       \/ RedisplayDrawDone(t)
       \/ RedisplayReturn(t)

SpecSink == InitNegotiated /\ [][NextSink]_vars

(* ======================= glimagesink: properties ======================= *)

(* on_draw has emitted client-draw and has not yet returned. *)
Drawing == glpc \in {"od_bind", "od_end"}

(* C7 as stated: after a drain and until show_frame presents a new frame, no
   draw emits client-draw or draws the default scene. *)
C7_NoDrawAfterDrain ==
  ~(drained /\ Drawing)

(* C8: one draw uses one texture throughout: the id given to client-draw is
   the one the default scene binds, it is the id show_frame presented last
   and its buffer is the stored one (or the frame was drained and the id is
   0 with no stored buffer). *)
C8_DrawUsesOneTexture ==
  Drawing =>
    /\ emit_tex = redisplay_texture
    /\ emit_tex = stored_buffer
    /\ bind_tex \in {NoTex, emit_tex}
    /\ glpc = "od_end" => (is_drawing /\ drawing_lock = GL)
    /\ IF drained THEN emit_tex = 0 ELSE emit_tex \in 1..nframes

(* A draw asked for by expose found frame 1 ready, show_frame presented
   frame 2 while the lock was released for on_resize, and the draw went on
   with frame 2 for both client-draw and the default scene. *)
C8_Witness ==
  /\ glpc = "od_end"
  /\ Head(queue).from = Application
  /\ seen_tex = 1
  /\ emit_tex = 2
  /\ bind_tex = 2

(* C17: once on_close has set to_quit the key and mouse handlers are
   disconnected, and a show_frame that began with to_quit set has returned
   an error. *)
C17_ErrorAfterClose ==
  /\ to_quit # 0 => ~listeners
  /\ (sf_late /\ pc[Streaming] = "idle") => sf_result = "error"

(* The window was closed after frame 1 had been shown; show_frame presented
   frame 2 on the window that still runs, redisplay succeeded and released
   frame 1, and the result is the error. *)
C17_Witness ==
  /\ sf_late
  /\ pc[Streaming] = "idle"
  /\ alive
  /\ nframes = 2
  /\ stored_buffer = 2
  /\ held = {2}
  /\ sync[Streaming].cb = "draw_cb"
  /\ sync[Streaming].fired
  /\ sf_result = "error"
  /\ ~listeners

(* The window thread is inside gst_glimage_sink_on_draw past the check that
   a texture is ready. *)
InOnDraw == glpc \in {"od_resize", "od_relock", "od_emit", "od_bind", "od_end"}

(* C18: a draw call made while is_drawing is set sends and queues nothing,
   so no draw message was sent while a draw was in progress; is_drawing is
   set only while the window thread is inside on_draw, for the one draw
   message it is dispatching. *)
C18_DrawSuppressed ==
  /\ \A t \in Clients :
       /\ sync[t].cb = "draw_cb" => ~sync[t].busy
       /\ sync[t].cb = "dropped" =>
            /\ sync[t].on = {}
            /\ \A i \in 1..Len(queue) : queue[i] # SyncSrc(t)
  /\ is_drawing = InOnDraw
  /\ InOnDraw =>
       /\ Head(queue) \in {SyncSrc(t) : t \in Clients}
       /\ sync[Head(queue).from].cb = "draw_cb"
       /\ sync[Head(queue).from].runs = 0

(* While the draw that expose asked for is inside on_draw, the redisplay of
   show_frame called gst_gl_window_draw and came back with nothing sent. *)
C18_Witness ==
  /\ InOnDraw
  /\ Head(queue) = SyncSrc(Application)
  /\ sync[Streaming] = Dropped
  /\ pc[Streaming] = "rd_end"

(* C19: whenever the drawing lock is free, a redisplay_texture other than 0
   is the texture of the buffer in stored_buffer and the reference taken for
   stored_buffer is still held; a redisplay_texture of 0 goes with a NULL
   stored_buffer, as the drain query and PAUSED_TO_READY leave them. *)
C19_TextureHasStoredBuffer ==
  DrawingLockFree =>
    IF redisplay_texture # 0
      THEN /\ stored_buffer = redisplay_texture
           /\ stored_buffer \in held
      ELSE stored_buffer = 0

(* Frame 2 was presented over frame 1, and then the drain query or the
   PAUSED_TO_READY change cleared the texture id and the stored buffer and
   released the reference. *)
C19_Witness ==
  /\ DrawingLockFree
  /\ nframes = 2
  /\ pc[Streaming] = "idle"
  /\ sf_result = "ok"
  /\ sf_old = 0
  /\ redisplay_texture = 0
  /\ stored_buffer = 0
  /\ held = {}

(* C20 as stated: on_draw never gives texture id 0 to the client-draw
   signal and never binds texture id 0 for the default scene. *)
C20_NoDrawWithTextureZero ==
  /\ emit_tex # 0
  /\ bind_tex # 0

(* C21 as stated: thread_init_redisplay runs at most once, and it has run
   when on_draw draws the default scene. *)
C21_InitRedisplayOnce ==
  /\ Len(init_log) <= 1
  /\ glpc = "od_bind" => Len(init_log) = 1

(* Some run of thread_init_redisplay failed to compile the shader. *)
CompileFailed == \E i \in 1..Len(init_log) : ~init_log[i]

(* C23 as stated: once a compilation has failed thread_init_redisplay is
   not run again and the shader stays NULL (so that every later redisplay
   fails), and the default scene is never drawn with a NULL shader. *)
C23_CompileFailureIsFinal ==
  /\ CompileFailed =>
       /\ ~redisplay_shader
       /\ \A i \in 1..(Len(init_log) - 1) : init_log[i]
  /\ glpc = "od_bind" => redisplay_shader

(* C32: in a draw that found a texture, once the emission is over the
   client-draw signal has been emitted exactly once, with the texture id that
   is current, and the default scene is drawn (with that texture) if and only
   if the answer was that the client did not redraw. *)
C32_ClientDrawThenDefault ==
  /\ glpc = "od_bind" =>
       /\ client_draw = [n |-> 1, redrawn |-> FALSE]
       /\ emit_tex = redisplay_texture
  /\ glpc = "od_end" =>
       /\ client_draw.n = 1
       /\ emit_tex = redisplay_texture
       /\ (bind_tex # NoTex) <=> ~client_draw.redrawn
       /\ bind_tex # NoTex => bind_tex = emit_tex
  /\ glpc \in {"od_resize", "od_relock", "od_emit"} => client_draw.n = 0

(* A draw in which the client declined and the default scene was drawn with
   the emitted texture. *)
C32_Witness ==
  /\ glpc = "od_end"
  /\ ~client_draw.redrawn
  /\ bind_tex = emit_tex
  /\ emit_tex > 0

(* A draw in which the client redrew and no default scene was drawn. *)
C32_WitnessRedrawn ==
  /\ glpc = "od_end"
  /\ client_draw.redrawn
  /\ bind_tex = NoTex

(* C34 as stated: a thread that redisplay sent into gst_gl_window_draw on a
   running window is never held there until the draw callback has been
   executed on the window thread. *)
C34_DrawDoesNotBlock ==
  \A t \in Clients : ~(pc[t] = "rd_draw_wait" /\ ~SyncMayReturn(t))

(* C35 as stated: a caps change is not lost.  Whenever the pending flag is
   clear, no set_caps has run since the last on_resize began, so the last
   reshape used the sink dimensions of the latest caps; and after a set_caps
   the flag stays set while the window size is unknown. *)
C35_CapsChangeNotLost ==
  /\ ~caps_change => ~reshape_stale
  /\ (reshape_stale /\ window_width = 0 /\ window_height = 0) => caps_change

(* C36: is_drawing is set only while the window thread is in the body of
   on_draw; once the body is left the flag is FALSE again, so a draw request
   made while no draw is in progress is sent and not suppressed. *)
C36_DrawingFlagReset ==
  /\ is_drawing => InOnDraw
  /\ glpc \in {"dc_swap", "sync_fire", "dispatch", "poll"} => ~is_drawing
  /\ \A t \in Clients : (pc[t] = "rd_draw" /\ ~InOnDraw) => ~DrawSuppressed

(* A draw has gone through on_draw to its end (the client-draw signal was
   emitted), the flag is FALSE again, and the next frame's redisplay is about
   to ask for a draw. *)
C36_Witness ==
  /\ client_draw.n = 1
  /\ ~InOnDraw
  /\ ~is_drawing
  /\ pc[Streaming] = "rd_draw"
  /\ nframes = 2

(* ======================= glimagesink: setup ============================ *)

(* A sink in PAUSED that has not set its window up yet. *)
InitUnset ==
  /\ InitCreated
  /\ InitProperties
  /\ InitWindow
  /\ InitSink
  /\ viewport = NoViewport
  /\ element_state = "PAUSED"
  /\ context = FALSE
  /\ listeners = FALSE
  /\ sf_late = FALSE
  /\ held = {}
  /\ init_log = <<>>
  /\ slot = [k \in Kinds |-> EmptySlot]
  /\ notified = [k \in Kinds |->
                  [r \in 1..(MaxReg + 1) |-> [inst |-> FALSE, n |-> 0, bad |-> FALSE]]]
  /\ caps_change = FALSE
  /\ reshape_stale = FALSE
  /\ window_id = 0
  /\ todo = MaxOps

NextSetup ==
  \/ EnsureGlSetup
  \/ Open
  \/ RunEnter
  \/ LoopStart
  \/ LoopTop
  \/ LoopPoll
  \/ LoopIterDone
  \/ RunMessageSync
  \/ SyncFire
  \/ ThreadInitRedisplay
  \/ GlDrawCb
  \/ OnDrawBegin
  \/ OnDrawEmit
  \/ OnDrawDefault
  \/ OnDrawEnd
  \/ SetCaps
  \/ Prepare
  \/ ShowFramePublish
  \/ RedisplayCheck(Streaming)
  \/ RedisplayInitDone(Streaming)
  \/ RedisplayDraw(Streaming)
  \/ RedisplayDrawDone(Streaming)
  \/ RedisplayReturn(Streaming)

SpecSetup == InitUnset /\ [][NextSetup]_vars

(* The last _ensure_gl_setup call failed to create the context. *)
SetupFailed == setup.why \in {"new_failed", "create_failed"}

(* C33: after a setup call in which the context could not be created, the
   caller has returned its error result with one error posted, and the sink
   has no context, no window callback and no key or mouse handler; and
   however many calls go through setup, one context at most is created and
   the callbacks are registered once at most. *)
C33_SetupFailureLeavesNothing ==
  /\ SetupFailed =>
       /\ setup.errors = 1
       /\ setup.result = SetupResult(setup.call, FALSE)
       /\ ~context
       /\ ~listeners
       /\ \A k \in Kinds : slot[k] = EmptySlot
  /\ setup.contexts <= 1
  /\ setup.regs <= 1
  /\ setup.why = "exists" => (context /\ setup.errors = 0)

(* A second call found the context of the first and created nothing. *)
C33_Witness ==
  /\ setup.why = "exists"
  /\ setup.contexts = 1
  /\ setup.calls >= 2

(* A call failed and a later one has not been made yet. *)
C33_WitnessFailed ==
  /\ SetupFailed
  /\ setup.call = "prepare"
  /\ setup.result = "NOT_NEGOTIATED"

(* C28 as stated: whenever no show_frame is under way, every buffer that
   was placed in stored_buffer has been released, except the one that is
   stored now. *)
C28_OldBufferReleased ==
  pc[Streaming] = "idle" =>
    held = (IF stored_buffer = 0 THEN {} ELSE {stored_buffer})

(* The positions at which a client thread is blocked in a synchronous
   send_message: redisplay's init message, the draw dispatched by
   gst_gl_window_draw, and the cleanup message of PAUSED_TO_READY. *)
SyncWaitPcs == {"rd_init_wait", "rd_draw_wait", "td_wait"}

(* C29: a client thread that waits in a synchronous send_message, or in a
   draw dispatched through one, does not hold the sink's drawing lock; the
   lock is held only by the window thread inside on_draw, which sends no
   message, so the callback the client waits for can always take the lock. *)
C29_NoLockWhileSending ==
  /\ \A t \in Clients : pc[t] \in SyncWaitPcs => drawing_lock # t
  /\ drawing_lock = GL => glpc \in {"od_emit", "od_bind", "od_end"}

(* The producer waits for its draw while the window thread holds the drawing
   lock inside on_draw. *)
C29_Witness ==
  /\ pc[Streaming] = "rd_draw_wait"
  /\ ~sync[Streaming].fired
  /\ drawing_lock = GL

(* C30: a send_message made from a message callback that is executing on
   the window thread completes: the window thread never waits for its own
   loop, and the nested callback has run exactly once, on the window thread,
   with fired set, when the call is over. *)
C30_NestedSendCompletes ==
  /\ glpc # "nest_wait"
  /\ sync[GL].cb # "none" =>
       /\ sync[GL].fired
       /\ sync[GL].runs = 1
       /\ sync[GL].on = {GL}

(* The nested call has returned and the outer callback has returned after it
   (an asynchronous outer message is at its destroy step). *)
C30_Witness ==
  /\ sync[GL].cb = "count"
  /\ sync[GL].fired
  /\ glpc = "msg_destroy"

(* ======================= gst_gl_window_new: the backend ================ *)

(* The backends in the order gst_gl_window_new tries them. *)
Priority == <<"cocoa", "x11", "win32", "wayland", "dispmanx", "android", "eagl">>

Backends == {Priority[i] : i \in 1..Len(Priority)}

(* Strings, as sequences of characters. *)
COCOA == <<"c", "o", "c", "o", "a">>
X11 == <<"x", "1", "1">>
WIN32 == <<"w", "i", "n", "3", "2">>
WAYLAND == <<"w", "a", "y", "l", "a", "n", "d">>
DISPMANX == <<"d", "i", "s", "p", "m", "a", "n", "x">>
ANDROID == <<"a", "n", "d", "r", "o", "i", "d">>
EAGL == <<"e", "a", "g", "l">>
X11EGL == <<"x", "1", "1", "e", "g", "l">>
WAY == <<"w", "a", "y">>
XWAYLAND == <<"x", "w", "a", "y", "l", "a", "n", "d">>
EAGLX11 == <<"e", "a", "g", "l", "x", "1", "1">>
GBM == <<"g", "b", "m">>

(* The string literal each backend is looked for by; its length is the
   second argument of g_strstr_len. *)
Name(b) ==
  CASE b = "cocoa" -> COCOA
    [] b = "x11" -> X11
    [] b = "win32" -> WIN32
    [] b = "wayland" -> WAYLAND
    [] b = "dispmanx" -> DISPMANX
    [] b = "android" -> ANDROID
    [] b = "eagl" -> EAGL

Choice(str) == [set |-> TRUE, str |-> str]

(* Values of GST_GL_WINDOW: not set, empty, each backend's name, a name
   followed by more text, the beginning of a name, a name behind other text,
   two names, and a string that names nothing. *)
UserChoices ==
  {NoChoice, Choice(<<>>)}
    \cup {Choice(Name(b)) : b \in Backends}
    \cup {Choice(X11EGL), Choice(WAY), Choice(XWAYLAND),
          Choice(EAGLX11), Choice(GBM)}

Min(a, b) == IF a < b THEN a ELSE b

(* Mutant of StrstrLen: the whole string is searched (strstr). *)
Strstr(haystack, haystack_len, needle) ==
  \E i \in 1..Len(haystack) :
    /\ i + Len(needle) - 1 <= Len(haystack)
    /\ SubSeq(haystack, i, i + Len(needle) - 1) = needle

(* g_strstr_len (haystack, haystack_len, needle) != NULL: needle occurs in
   the first haystack_len characters of haystack. *)
StrstrLen(haystack, haystack_len, needle) ==
  LET n == Min(haystack_len, Len(haystack))
  IN \E i \in 1..n :
       /\ i + Len(needle) - 1 <= n
       /\ SubSeq(haystack, i, i + Len(needle) - 1) = needle

(* !user_choice || g_strstr_len (user_choice, strlen (name), name) *)
Wanted(b) ==
  ~user_choice.set \/ StrstrLen(user_choice.str, Len(Name(b)), Name(b))

(* One #if block of gst_gl_window_new for backend b, on the local state
   w = [window, tried]: compiled in, no window yet and wanted => call the
   backend's constructor, which may return NULL. *)
TryBackend(w, b) ==
  IF b \in have_window /\ w.window = NoWindow /\ Wanted(b)
    THEN [window |-> IF b \in creatable THEN b ELSE NoWindow,
          tried |-> Append(w.tried, b)]
    ELSE w

(* The #if blocks in their order, from block i on. *)
RECURSIVE TryFrom(_, _)
TryFrom(w, i) ==
  IF i > Len(Priority) THEN w ELSE TryFrom(TryBackend(w, Priority[i]), i + 1)

(* Mutant of DummyIfNone: no fallback. *)
NoFallback(w) == w

(* if (!window) window = gst_gl_dummy_window_new (); *)
DummyIfNone(w) == IF w = NoWindow THEN Dummy ELSE w

(* gst_gl_window_new up to the start of the navigation thread: the choice of
   the window class. *)
WindowNewSelect ==
  /\ newpc = "start"
  /\ LET w == TryFrom([window |-> NoWindow, tried |-> <<>>], 1)
     IN /\ window' = DummyIfNone(w.window)
        /\ tried' = w.tried
  /\ newpc' = "selected"
  /\ UNCHANGED <<winvars, regvars, glvars, clvars, msgvars, histvars, sinkvars,
                 statevars, opened, shapevars, user_choice, have_window, creatable, nav_lock, nav_created,
                 nav_alive, navigation_loop, nav_started, navpc, finpc,
                 nav_quit, nav_late, relay>>

(* A window object after gst_gl_window_init, before the factory has chosen
   its class. *)
InitNavigation ==
  /\ nav_lock = NoThread
  /\ nav_created = FALSE
  /\ nav_alive = FALSE
  /\ navigation_loop = "none"
  /\ nav_started = 0
  /\ navpc = "none"
  /\ finpc = "none"
  /\ nav_quit = FALSE
  /\ nav_late = FALSE
  /\ relay = <<>>

InitNew ==
  /\ InitWindow
  /\ InitNoElement
  /\ InitSink
  /\ slot = [k \in Kinds |-> EmptySlot]
  /\ notified = [k \in Kinds |->
                  [r \in 1..(MaxReg + 1) |-> [inst |-> FALSE, n |-> 0, bad |-> FALSE]]]
  /\ caps_change = FALSE
  /\ reshape_stale = FALSE
  /\ window_id = 0
  /\ todo = 0
  /\ InitNavigation
  /\ newpc = "start"
  /\ window = NoWindow
  /\ tried = <<>>
  /\ user_choice \in UserChoices
  /\ have_window \in SUBSET Backends
  /\ creatable \in SUBSET have_window

NextNew == WindowNewSelect

SpecNew == InitNew /\ [][NextNew]_vars

(* ======================= gst_gl_window_new: properties ================= *)

Selected == newpc # "start"

(* Position of backend b in the priority order. *)
Rank(b) == CHOOSE i \in 1..Len(Priority) : Priority[i] = b

(* The first backend of set S in the priority order, the dummy if S is empty. *)
FirstOf(S) ==
  IF S = {} THEN Dummy
  ELSE CHOOSE b \in S : \A c \in S : Rank(b) <= Rank(c)

(* The override begins with the name of backend b. *)
BeginsWith(b) ==
  /\ Len(user_choice.str) >= Len(Name(b))
  /\ SubSeq(user_choice.str, 1, Len(Name(b))) = Name(b)

(* C11: gst_gl_window_new never returns NULL, whatever the override, the
   compiled-in backends and the constructors that fail; the window is a
   backend that is compiled in and whose constructor succeeded, or else the
   dummy window. *)
C11_NewReturnsWindow ==
  Selected =>
    /\ window # NoWindow
    /\ window \in (have_window \cap creatable) \cup {Dummy}
    /\ (\A i \in 1..Len(tried) : tried[i] \notin creatable) => window = Dummy

(* Backends are compiled in, the override is unset, every constructor called
   has failed: the dummy window is returned. *)
C11_Witness ==
  /\ Selected
  /\ ~user_choice.set
  /\ Len(tried) >= 2
  /\ creatable = {}
  /\ window = Dummy

(* C12 as stated: unset or matching no backend's name => the first compiled-in
   backend that can be created, in priority order, else the dummy; naming a
   backend => that backend. *)
C12_FallbackThroughPriority ==
  Selected =>
    IF \E b \in Backends : user_choice.set /\ user_choice.str = Name(b)
      THEN user_choice.str = Name(window)
      ELSE window = FirstOf(have_window \cap creatable)

(* C12 amended: with the override unset every compiled-in backend is tried in
   priority order; with the override set only the compiled-in backend whose
   name the override begins with is tried; the first tried backend that is
   created is returned, the dummy if there is none. *)
C12_FirstWantedBackend ==
  Selected =>
    LET wanted == {b \in have_window : ~user_choice.set \/ BeginsWith(b)}
    IN /\ window = FirstOf(wanted \cap creatable)
       /\ \A i \in 1..Len(tried) : tried[i] \in wanted
       /\ \A i, j \in 1..Len(tried) : i < j => Rank(tried[i]) < Rank(tried[j])
       /\ user_choice.set => Len(tried) <= 1

(* The override is unset, the first two compiled-in backends fail and the
   third is returned. *)
C12_Witness ==
  /\ Selected
  /\ ~user_choice.set
  /\ Len(tried) = 3
  /\ window = tried[3]

(* ======================= the navigation thread ========================= *)

Creator == "new"          \* the thread that calls gst_gl_window_new
Finalizer == "fin"        \* the thread that drops the last reference
Navigation == "nav"       \* the "gstglnavigation" thread

(* g_mutex_lock (&window->nav_lock) can return. *)
NavLockFree == nav_lock = NoThread

(* gst_gl_window_open_navigation has signalled nav_create_cond. *)
CreateSignalled == navpc \notin {"none", "start"}

(* g_cond_wait may return without a signal; gst_gl_window_new calls it once,
   with no loop around it. *)
SpuriousWakeup == TRUE

(* The window has been freed: its locks and condition variables are cleared. *)
Finalized == finpc = "done"

(* gst_gl_window_new: g_mutex_lock (&window->nav_lock); if (!nav_created)
   g_thread_new (gst_gl_window_navigation_thread). *)
WindowNewLock ==
  /\ newpc = "selected"
  /\ NavLockFree
  /\ nav_lock' = Creator
  /\ IF ~nav_created
       THEN /\ nav_started' = nav_started + 1
            /\ navpc' = "start"
            /\ newpc' = "created"
       ELSE /\ UNCHANGED <<nav_started, navpc>>
            /\ newpc' = "unlock"
  /\ UNCHANGED <<winvars, regvars, glvars, clvars, msgvars, histvars, sinkvars,
                 facvars, statevars, opened, shapevars, nav_created, nav_alive, navigation_loop, finpc,
                 nav_quit, nav_late, relay>>

(* ... g_cond_wait (&window->nav_create_cond, &window->nav_lock): the mutex
   is released while waiting. *)
WindowNewWait ==
  /\ newpc = "created"
  /\ nav_lock' = NoThread
  /\ newpc' = "wait"
  /\ UNCHANGED <<winvars, regvars, glvars, clvars, msgvars, histvars, sinkvars,
                 facvars, statevars, opened, shapevars, nav_created, nav_alive, navigation_loop, nav_started,
                 navpc, finpc, nav_quit, nav_late, relay>>

(* ... g_cond_wait returns with the mutex held; nav_created = TRUE. *)
WindowNewWake ==
  /\ newpc = "wait"
  /\ CreateSignalled \/ SpuriousWakeup
  /\ NavLockFree
  /\ nav_lock' = Creator
  /\ nav_created' = TRUE
  /\ newpc' = "unlock"
  /\ UNCHANGED <<winvars, regvars, glvars, clvars, msgvars, histvars, sinkvars,
                 facvars, statevars, opened, shapevars, nav_alive, navigation_loop, nav_started, navpc, finpc,
                 nav_quit, nav_late, relay>>

(* ... g_mutex_unlock (&window->nav_lock); return window. *)
WindowNewReturn ==
  /\ newpc = "unlock"
  /\ nav_lock' = NoThread
  /\ newpc' = "returned"
  /\ UNCHANGED <<winvars, regvars, glvars, clvars, msgvars, histvars, sinkvars,
                 facvars, statevars, opened, shapevars, nav_created, nav_alive, navigation_loop, nav_started,
                 navpc, finpc, nav_quit, nav_late, relay>>

(* gst_gl_window_open_navigation: under nav_lock, a new context and loop,
   nav_alive = TRUE, g_cond_signal (nav_create_cond). *)
NavOpen ==
  /\ navpc = "start"
  /\ NavLockFree
  /\ navigation_loop' = "idle"
  /\ nav_alive' = TRUE
  /\ nav_late' = (nav_late \/ Finalized)
  /\ navpc' = "run"
  /\ UNCHANGED <<winvars, regvars, glvars, clvars, msgvars, histvars, sinkvars,
                 facvars, statevars, opened, shapevars, nav_lock, nav_created, nav_started, newpc, finpc,
                 nav_quit, relay>>

(* gst_gl_window_run_navigation -> g_main_loop_run: is_running is set before
   the first iteration. *)
NavRun ==
  /\ navpc = "run"
  /\ navigation_loop' = "running"
  /\ nav_late' = (nav_late \/ Finalized)
  /\ navpc' = "loop"
  /\ UNCHANGED <<winvars, regvars, glvars, clvars, msgvars, histvars, sinkvars,
                 facvars, statevars, opened, shapevars, nav_lock, nav_created, nav_alive, nav_started, newpc,
                 finpc, nav_quit, relay>>

(* g_main_loop_run returns once is_running has been cleared. *)
NavLoopExit ==
  /\ navpc = "loop"
  /\ navigation_loop # "running"
  /\ navpc' = "close"
  /\ UNCHANGED <<winvars, regvars, glvars, clvars, msgvars, histvars, sinkvars,
                 facvars, statevars, opened, shapevars, nav_lock, nav_created, nav_alive, navigation_loop,
                 nav_started, newpc, finpc, nav_quit, nav_late, relay>>

(* gst_gl_window_close_navigation: under nav_lock, nav_alive = FALSE, the
   loop and the context are unreferenced, g_cond_signal (nav_destroy_cond);
   the thread function returns.  The sources still attached to the context
   are destroyed with it, without a dispatch. *)
NavClose ==
  /\ navpc = "close"
  /\ NavLockFree
  /\ nav_alive' = FALSE
  /\ navigation_loop' = "freed"
  /\ nav_late' = (nav_late \/ Finalized)
  /\ relay' = [i \in 1..Len(relay) |->
                IF relay[i].at = "queued" THEN [relay[i] EXCEPT !.at = "dropped"]
                ELSE relay[i]]
  /\ navpc' = "done"
  /\ UNCHANGED <<winvars, regvars, glvars, clvars, msgvars, histvars, sinkvars,
                 facvars, statevars, opened, shapevars, nav_lock, nav_created, nav_started, newpc, finpc,
                 nav_quit>>

(* A raw event as the backend hands it over: a slice-allocated key_event or
   mouse_event attached to the navigation context as a one-shot source. *)
NewEvent(kind) == [kind |-> kind, at |-> "queued", emitted |-> 0, freed |-> 0, on |-> {}]

(* The first event still attached to the navigation context, 0 if none. *)
FirstQueued ==
  IF \E i \in 1..Len(relay) : relay[i].at = "queued"
    THEN CHOOSE i \in 1..Len(relay) :
           /\ relay[i].at = "queued"
           /\ \A j \in 1..(i - 1) : relay[j].at # "queued"
    ELSE 0

(* The window thread's backend posts a key or mouse event on the navigation
   context, which exists from open_navigation to close_navigation; the
   window thread does not own that context, so a source is attached. *)
PostEvent ==
  /\ newpc = "returned"
  /\ finpc = "none"
  /\ navpc \in {"run", "loop", "close"}
  /\ Len(relay) < MaxEvents
  /\ \E kind \in {"key", "mouse"} : relay' = Append(relay, NewEvent(kind))
  /\ UNCHANGED <<winvars, regvars, glvars, clvars, msgvars, histvars, sinkvars,
                 facvars, statevars, opened, shapevars, nav_lock, nav_created, nav_alive,
                 navigation_loop, nav_started, navpc, newpc, finpc, nav_quit, nav_late>>

(* gst_gl_window_key_event_cb / gst_gl_window_mouse_event_cb, dispatched by
   an iteration of the navigation loop: g_signal_emit of the abstract event,
   g_slice_free of the record, return G_SOURCE_REMOVE. *)
EventCb ==
  /\ navpc = "loop"
  /\ FirstQueued # 0
  /\ relay' = [relay EXCEPT ![FirstQueued] =
                 [@ EXCEPT !.at = "done", !.emitted = Bump(@), !.freed = Bump(@),
                           !.on = @ \cup {Navigation}]]
  /\ UNCHANGED <<winvars, regvars, glvars, clvars, msgvars, histvars, sinkvars,
                 facvars, statevars, opened, shapevars, nav_lock, nav_created, nav_alive,
                 navigation_loop, nav_started, navpc, newpc, finpc, nav_quit, nav_late>>

(* gst_gl_window_finalize (the last reference is dropped at some moment after
   gst_gl_window_new returned, and not while a sink's context holds the
   window): if (window->nav_alive), read without lock. *)
FinalizeCheck ==
  /\ finpc = "none"
  /\ newpc = "returned"
  /\ ~context
  /\ finpc' = IF nav_alive THEN "lock" ELSE "clear"
  /\ UNCHANGED <<winvars, regvars, glvars, clvars, msgvars, histvars, sinkvars,
                 facvars, statevars, opened, shapevars, nav_lock, nav_created, nav_alive, navigation_loop,
                 nav_started, navpc, newpc, nav_quit, nav_late, relay>>

(* ... g_mutex_lock (&window->nav_lock). *)
FinalizeLock ==
  /\ finpc = "lock"
  /\ NavLockFree
  /\ nav_lock' = Finalizer
  /\ finpc' = "quit"
  /\ UNCHANGED <<winvars, regvars, glvars, clvars, msgvars, histvars, sinkvars,
                 facvars, statevars, opened, shapevars, nav_created, nav_alive, navigation_loop, nav_started,
                 navpc, newpc, nav_quit, nav_late, relay>>

(* ... gst_gl_window_quit_navigation -> g_main_loop_quit: is_running is
   cleared. *)
FinalizeQuit ==
  /\ finpc = "quit"
  /\ navigation_loop' = IF navigation_loop = "running" THEN "idle"
                        ELSE navigation_loop
  /\ nav_quit' = TRUE
  /\ finpc' = "test"
  /\ UNCHANGED <<winvars, regvars, glvars, clvars, msgvars, histvars, sinkvars,
                 facvars, statevars, opened, shapevars, nav_lock, nav_created, nav_alive, nav_started, navpc,
                 newpc, nav_late, relay>>

(* ... while (window->nav_alive) g_cond_wait (nav_destroy_cond, nav_lock):
   the test; the wait releases the mutex. *)
FinalizeTest ==
  /\ finpc = "test"
  /\ IF nav_alive
       THEN /\ nav_lock' = NoThread
            /\ finpc' = "wait"
       ELSE /\ nav_lock' = NoThread
            /\ finpc' = "clear"
  /\ UNCHANGED <<winvars, regvars, glvars, clvars, msgvars, histvars, sinkvars,
                 facvars, statevars, opened, shapevars, nav_created, nav_alive, navigation_loop, nav_started,
                 navpc, newpc, nav_quit, nav_late, relay>>

(* ... g_cond_wait returns with the mutex held, after the signal of
   close_navigation (a return without signal finds nav_alive still TRUE and
   waits again). *)
FinalizeWake ==
  /\ finpc = "wait"
  /\ ~nav_alive
  /\ NavLockFree
  /\ nav_lock' = Finalizer
  /\ finpc' = "test"
  /\ UNCHANGED <<winvars, regvars, glvars, clvars, msgvars, histvars, sinkvars,
                 facvars, statevars, opened, shapevars, nav_created, nav_alive, navigation_loop, nav_started,
                 navpc, newpc, nav_quit, nav_late, relay>>

(* ... g_mutex_clear (&window->lock), g_mutex_clear (&window->nav_lock),
   g_cond_clear of both conditions; the object is freed. *)
FinalizeClear ==
  /\ finpc = "clear"
  /\ finpc' = "done"
  /\ UNCHANGED <<winvars, regvars, glvars, clvars, msgvars, histvars, sinkvars,
                 facvars, statevars, opened, shapevars, nav_lock, nav_created, nav_alive, navigation_loop,
                 nav_started, navpc, newpc, nav_quit, nav_late, relay>>

(* Windows of a build with the x11 and wayland backends, any override. *)
InitNav ==
  /\ InitNew
  /\ have_window \subseteq {"x11", "wayland"}

NextNav ==
  \/ WindowNewSelect
  \/ WindowNewLock
  \/ WindowNewWait
  \/ WindowNewWake
  \/ WindowNewReturn
  \/ NavOpen
  \/ NavRun
  \/ NavLoopExit
  \/ NavClose
  \/ PostEvent
  \/ EventCb
  \/ FinalizeCheck
  \/ FinalizeLock
  \/ FinalizeQuit
  \/ FinalizeTest
  \/ FinalizeWake
  \/ FinalizeClear

SpecNav == InitNav /\ [][NextNav]_vars

(* ======================= the navigation thread: properties ============= *)

(* C13 as stated: when gst_gl_window_new has returned (and the window has not
   been released yet), the navigation thread has created its loop and set
   nav_alive, and exactly one navigation thread was started. *)
C13_NewWaitsForNavigation ==
  (newpc = "returned" /\ finpc = "none") =>
    /\ nav_alive
    /\ navigation_loop \in {"idle", "running"}
    /\ nav_started = 1

(* C14 as stated: when finalize clears the locks and condition variables the
   navigation thread has been told to quit and has left close_navigation
   (nav_alive is FALSE), and it never uses the window afterwards. *)
C14_NoTeardownWhileNavigationAlive ==
  /\ finpc \in {"clear", "done"} => (nav_quit /\ ~nav_alive /\ navpc = "done")
  /\ ~nav_late

(* C15 as stated: finalize always returns; it is never left waiting for a
   navigation thread that has missed the quit request and sits in its loop
   with is_running set, where nothing will wake it. *)
C15_FinalizeTerminates ==
  ~(/\ finpc = "wait"
    /\ nav_alive
    /\ nav_quit
    /\ navpc = "loop"
    /\ navigation_loop = "running")
(* C31 as stated: every event posted on the navigation loop is re-emitted
   exactly once and its record freed exactly once, on the navigation thread:
   never twice, never on another thread, and no event is left without its
   emission once the navigation thread has ended. *)
C31_EventRelayedOnce ==
  \A i \in 1..Len(relay) :
    /\ relay[i].emitted <= 1
    /\ relay[i].freed = relay[i].emitted
    /\ relay[i].on \subseteq {Navigation}
    /\ navpc = "done" => (relay[i].emitted = 1 /\ relay[i].freed = 1)

(* ======================= gltestsrc ===================================== *)

(* The framerates of the caps and the values of the timestamp-offset
   property. *)
Rates == {[n |-> 0, d |-> 1], [n |-> 1, d |-> 1], [n |-> 3, d |-> 1],
          [n |-> 3, d |-> 2], [n |-> 7, d |-> 2]}
Offsets == {0, 5}

(* Mutant of ScaleInt: the quotient is rounded up. *)
ScaleIntUp(val, num, denom) == (val * num + denom - 1) \div denom

(* gst_util_uint64_scale_int (val, num, denom): val * num / denom, rounded
   down. *)
ScaleInt(val, num, denom) == (val * num) \div denom

(* fill, "return FALSE" after a failed download: FALSE is 0, the value of
   GST_FLOW_OK. *)
ReturnFalse == "OK"

(* gst_gl_test_src_start (after the timestamp-offset property was set):
   running_time = 0, n_frames = 0, negotiated = FALSE. *)
SrcStart ==
  /\ ~testsrc.started
  /\ \E off \in Offsets :
       testsrc' = [NoSrc EXCEPT !.started = TRUE, !.timestamp_offset = off]
  /\ UNCHANGED <<facvars, navvars, statevars, opened, keep_aspect_ratio, reshape_handler,
                 viewport, client_draw, setup, reshape_stale, winvars, regvars, glvars,
                 clvars, msgvars, histvars, sinkvars>>

(* gst_gl_test_src_setcaps, the first negotiation after start: out_info is
   parsed from the caps, negotiated = TRUE. *)
SrcSetCaps ==
  /\ testsrc.started
  /\ ~testsrc.negotiated
  /\ \E r \in Rates :
       testsrc' = [testsrc EXCEPT !.fps_n = r.n, !.fps_d = r.d, !.negotiated = TRUE]
  /\ UNCHANGED <<facvars, navvars, statevars, opened, keep_aspect_ratio, reshape_handler,
                 viewport, client_draw, setup, reshape_stale, winvars, regvars, glvars,
                 clvars, msgvars, histvars, sinkvars>>

(* gst_gl_test_src_decide_allocation: if (!src->context) a context is made. *)
SrcDecideAllocation ==
  /\ testsrc.started
  /\ ~testsrc.context
  /\ testsrc' = [testsrc EXCEPT !.context = TRUE]
  /\ UNCHANGED <<facvars, navvars, statevars, opened, keep_aspect_ratio, reshape_handler,
                 viewport, client_draw, setup, reshape_stale, winvars, regvars, glvars,
                 clvars, msgvars, histvars, sinkvars>>

(* gst_gl_test_src_stop: the context is released. *)
SrcStop ==
  /\ testsrc.started
  /\ testsrc.calls > 0
  /\ testsrc' = [testsrc EXCEPT !.started = FALSE, !.context = FALSE]
  /\ UNCHANGED <<facvars, navvars, statevars, opened, keep_aspect_ratio, reshape_handler,
                 viewport, client_draw, setup, reshape_stale, winvars, regvars, glvars,
                 clvars, msgvars, histvars, sinkvars>>

(* The tail of a fill that went through: timestamp, offsets, n_frames++,
   duration, running_time. *)
Filled(src) ==
  LET n == src.n_frames + 1
      next_time == IF src.fps_n # 0
                     THEN ScaleInt(n * Second, src.fps_d, src.fps_n)
                     ELSE src.timestamp_offset
  IN [src EXCEPT
        !.buf = [offset |-> src.n_frames, offset_end |-> n,
                 timestamp |-> src.timestamp_offset + src.running_time,
                 duration |-> IF src.fps_n # 0 THEN next_time - src.running_time
                              ELSE NONE],
        !.prev = src.buf,
        !.n_frames = n,
        !.running_time = next_time,
        !.oks = @ + 1,
        !.ret = "OK"]

(* gst_gl_test_src_fill on a buffer of the pool.  The mapping of the frame,
   the FBO call and the download are the collaborators' and can fail. *)
SrcFill ==
  /\ testsrc.started
  /\ testsrc.calls < MaxFills
  /\ \E outcome \in {"done", "map_failed", "fbo_failed", "download_failed"} :
       LET src == [testsrc EXCEPT !.calls = @ + 1]
       IN testsrc' =
            IF ~src.negotiated \/ ~src.context
              THEN [src EXCEPT !.ret = "NOT_NEGOTIATED"]
            ELSE IF src.fps_n = 0 /\ src.n_frames = 1
              THEN [src EXCEPT !.ret = "EOS"]
            ELSE IF outcome \in {"map_failed", "fbo_failed"}
              THEN [src EXCEPT !.ret = "NOT_NEGOTIATED"]
            ELSE IF outcome = "download_failed"
              THEN [src EXCEPT !.ret = ReturnFalse, !.oks = @ + 1,
                               !.prev = src.buf, !.buf = NoBuf]
            ELSE Filled(src)
  /\ UNCHANGED <<facvars, navvars, statevars, opened, keep_aspect_ratio, reshape_handler,
                 viewport, client_draw, setup, reshape_stale, winvars, regvars, glvars,
                 clvars, msgvars, histvars, sinkvars>>

(* The test source on its own: the other elements stay as constructed. *)
InitSrc ==
  /\ InitCreated
  /\ InitProperties
  /\ InitElement
  /\ InitWindow
  /\ InitSink
  /\ InitRegistered
  /\ caps_change = FALSE
  /\ reshape_stale = FALSE
  /\ window_id = 0
  /\ todo = MaxOps

NextSrc ==
  \/ SrcStart
  \/ SrcSetCaps
  \/ SrcDecideAllocation
  \/ SrcFill
  \/ SrcStop

SpecSrc == InitSrc /\ [][NextSrc]_vars

(* The running time after j frames at the negotiated rate. *)
RunningTime(j) == (j * testsrc.fps_d * Second) \div testsrc.fps_n

(* C37 as stated: with a framerate n/d, n > 0, the k-th fill that returned
   GST_FLOW_OK since start handed out a buffer with offset k-1, offset_end k,
   timestamp timestamp_offset + RunningTime(k-1) and the duration up to
   RunningTime(k); its timestamp is not below the previous buffer's and
   begins where that one ended. *)
C37_BufferTiming ==
  (testsrc.fps_n > 0 /\ testsrc.ret = "OK") =>
    LET k == testsrc.oks IN
    /\ testsrc.buf.offset = k - 1
    /\ testsrc.buf.offset_end = k
    /\ testsrc.buf.timestamp = testsrc.timestamp_offset + RunningTime(k - 1)
    /\ testsrc.buf.duration = RunningTime(k) - RunningTime(k - 1)
    /\ k > 1 =>
         /\ testsrc.prev.timestamp <= testsrc.buf.timestamp
         /\ testsrc.prev.timestamp + testsrc.prev.duration = testsrc.buf.timestamp

(* C38 as stated: with framerate 0, one fill at most returns GST_FLOW_OK
   after start, and a fill that returns end-of-stream or not-negotiated has
   left the frame counter and the running time as they were: end-of-stream
   comes after the one frame, not-negotiated before any. *)
C38_OneFrameAtRateZero ==
  /\ (testsrc.negotiated /\ testsrc.fps_n = 0) => testsrc.oks <= 1
  /\ testsrc.ret = "EOS" =>
       /\ testsrc.fps_n = 0
       /\ testsrc.n_frames = 1
       /\ testsrc.oks = 1
       /\ testsrc.running_time = testsrc.timestamp_offset
  /\ (testsrc.ret = "NOT_NEGOTIATED" /\ (~testsrc.negotiated \/ ~testsrc.context)) =>
       testsrc.n_frames = testsrc.oks

(* ======================= stopping the sink's window ==================== *)

(* The sink with its window and the window's navigation thread: frames are
   shown, PAUSED_TO_READY tears the sink down and releases the context, and
   the window is finalized after that. *)
NextStop ==
  \/ Open
  \/ RunEnter
  \/ LoopStart
  \/ LoopTop
  \/ LoopPoll
  \/ LoopIterDone
  \/ RunMessageSync
  \/ SyncFire
  \/ ThreadInitRedisplay
  \/ CleanupGlthread
  \/ GlDrawCb
  \/ OnDrawBegin
  \/ OnDrawEmit
  \/ OnDrawDefault
  \/ OnDrawEnd
  \/ Prepare
  \/ ShowFramePublish
  \/ RedisplayCheck(Streaming)
  \/ RedisplayInitDone(Streaming)
  \/ RedisplayDraw(Streaming)
  \/ RedisplayDrawDone(Streaming)
  \/ RedisplayReturn(Streaming)
  \/ PausedToReadyClear
  \/ PausedToReadyCleanup
  \/ PausedToReadyUnset
  \/ NavRun
  \/ NavLoopExit
  \/ NavClose
  \/ FinalizeCheck
  \/ FinalizeLock
  \/ FinalizeQuit
  \/ FinalizeTest
  \/ FinalizeWake
  \/ FinalizeClear

SpecStop == InitNegotiated /\ [][NextStop]_vars

(* gst_glimage_sink_cleanup_glthread, sent by PAUSED_TO_READY, has run. *)
CleanupRan == sync[Application].cb = "cleanup" /\ sync[Application].runs > 0

(* The navigation thread has ended and gst_gl_window_finalize has seen it. *)
NavJoined == ~nav_alive /\ finpc \in {"clear", "done"}

(* PAUSED_TO_READY has released the sink's context. *)
Released == element_state = "READY" /\ ~context

(* C26 as stated: the teardown message runs only after the navigation thread
   has been signalled and has ended, the callbacks are unset only after the
   teardown message has run, and the context (and with it the window) is
   released only after the three callbacks have been unset and their
   destroy notifies called. *)
C26_StopOrder ==
  /\ CleanupRan => NavJoined
  /\ (pc[Application] \in {"td_draw", "td_close"} \/ Released) => CleanupRan
  /\ Released =>
       \A k \in Kinds : slot[k] = EmptySlot /\ notified[k][1].n = 1
  /\ finpc # "none" => Released
(* ======================= glimagesink: resize =========================== *)

(* The sink with either value of keep-aspect-ratio, with or without a
   client-reshape handler that does the reshape itself. *)
InitResize ==
  /\ InitShown
  /\ keep_aspect_ratio \in BOOLEAN
  /\ reshape_handler \in BOOLEAN
  /\ client_draw = NoClientDraw
  /\ setup = NoSetup
  /\ testsrc = NoSrc

(* Frames are shown while the window backend reports resizes. *)
NextResize ==
  \/ Open
  \/ RunEnter
  \/ LoopStart
  \/ LoopTop
  \/ LoopPoll
  \/ LoopIterDone
  \/ RunMessageSync
  \/ SyncFire
  \/ ThreadInitRedisplay
  \/ GlDrawCb
  \/ OnDrawBegin
  \/ OnDrawResize
  \/ OnDrawRelock
  \/ OnDrawEmit
  \/ OnDrawDefault
  \/ OnDrawEnd
  \/ ResizeEvent
  \/ Prepare
  \/ ShowFramePublish
  \/ RedisplayCheck(Streaming)
  \/ RedisplayInitDone(Streaming)
  \/ RedisplayDraw(Streaming)
  \/ RedisplayDrawDone(Streaming)
  \/ RedisplayReturn(Streaming)

SpecResize == InitResize /\ [][NextResize]_vars

(* C27 as stated: the viewport is set only by an on_resize that on_draw
   called for a pending caps_change, never by the resize callback itself. *)
C27_ReshapeOnlyInDraw ==
  viewport.from # "resize"
====
